---- MODULE Spec2Model ----
(***************************************************************************)
(* NACP Bahamas 2025 agricultural census: the survey section modules       *)
(* (machinery, land use, holding labour, permanent workers), the progress *)
(* tracker of main_survey and the relational store they write to.         *)
(*                                                                         *)
(* A section table is a sequence of rows in id order (SERIAL primary keys), *)
(* so "ORDER BY id" is the order of the sequence; holder_survey_progress,   *)
(* which no query orders, is a bag of rows.  A transaction is one step:     *)
(* the statements of a handler are applied to a working copy of the table *)
(* and the copy is committed or rolled back as the handler's code says.   *)
(* Acreages and years are counted in thousandths, so that the precision   *)
(* of a DECIMAL(n,2) column is something a value can exceed.               *)
(***************************************************************************)
EXTENDS Integers, Sequences, FiniteSets, Bags, TLC

VARIABLES
    app,                       \* the entry point this run of the program serves
    progress_columns,          \* section columns holder_survey_progress has
    agricultural_machinery,    \* table agricultural_machinery
    land_use,                  \* table land_use
    land_use_parcels,          \* table land_use_parcels
    holding_labour,            \* table holding_labour
    holding_labour_permanent,  \* table holding_labour_permanent
    holder_survey_progress,    \* table holder_survey_progress
    session_state,             \* st.session_state of the one browser session
    conns,                     \* the open transactions of concurrent requests
    users,                     \* table users
    holders,                   \* table holders
    current_section,           \* st.session_state.current_section, NullInt when not set
    sessions,                  \* main_app.py: st.session_state of each browser session
    registration_form,         \* table registration_form
    registration_form_id_seq,  \* the sequence behind registration_form.id
    last                       \* what the last handler run showed and returned

vars == <<app, progress_columns, agricultural_machinery, land_use, land_use_parcels,
          holding_labour, holding_labour_permanent, holder_survey_progress,
          session_state, conns, users, holders, current_section, sessions,
          registration_form, registration_form_id_seq, last>>

main_app_state == <<sessions, registration_form, registration_form_id_seq>>

db == <<agricultural_machinery, land_use, land_use_parcels, holding_labour,
        holding_labour_permanent, holder_survey_progress>>

----------------------------------------------------------------------------
(* Bounds of the model *)

Holders == {1, 2}

(* max_rows of holding_labour_permanent_form (10 when the caller passes none) *)
MaxRows == 2

NULL == "NULL"

(* SQL NULL / Python None in an integer column or variable *)
NullInt == -1

----------------------------------------------------------------------------
(* Generic helpers *)

RECURSIVE Flatten(_)
Flatten(ss) == IF ss = <<>> THEN <<>> ELSE Head(ss) \o Flatten(Tail(ss))

Range(s) == {s[i] : i \in DOMAIN s}

Msg(level, code, row, field) ==
    [level |-> level, code |-> code, row |-> row, field |-> field]

Errors(msgs) == SelectSeq(msgs, LAMBDA m : m.level = "error")

Warnings(msgs) == SelectSeq(msgs, LAMBDA m : m.level = "warning")

(* conn.rollback(): the table is what it was before the transaction began, *)
(* whatever the statements already executed did to the working copy.       *)
RollbackKeepsPartial(before, working) == working

rollback(before, working) == before

(* st.session_state: a function over the keys that are set *)
SessionGet(session, key, default) ==
    IF key \in DOMAIN session THEN session[key] ELSE default

SessionSet(session, assigned) == assigned @@ session

(* What a handler run leaves on the page and returns.  `mark` describes the *)
(* call of mark_section_complete the run made, if any; `fault` names the    *)
(* statement of the run the database failed, `prior` the number of rows of  *)
(* the section the holder had stored when the run began.                     *)
Outcome(op, holder_id, submitted, msgs, save_called, save_ok, raised) ==
    [op |-> op, holder_id |-> holder_id, submitted |-> submitted,
     errors |-> Errors(msgs), warnings |-> Warnings(msgs),
     save_called |-> save_called, save_ok |-> save_ok, raised |-> raised,
     mark |-> [called |-> FALSE, column |-> "", section |-> 0, raised |-> FALSE,
               path |-> "none"],
     fault |-> "none", prior |-> 0]

NoOutcome == Outcome("none", 0, <<>>, <<>>, FALSE, FALSE, FALSE)

----------------------------------------------------------------------------
(* agricultural_machinery.py *)

equipment_list ==
    << "Small Engine Machines (e.g. pole-saw, push mower, weed wacker, auger etc.)",
       "Tractors (below 100 horsepower)",
       "Tractors (100 horsepower or greater)", "Sprayers and dusters",
       "Trucks (including pickups)", "Cars / Jeeps / Station Wagons",
       "Open Entry 1", "Open Entry 2" >>

(* `"Open Entry" in name`, over the names the model uses *)
ContainsOpenEntry(name) == name \in {"Open Entry 1", "Open Entry 2"}

(* `not name.strip()` *)
StripIsEmpty(name) == name \in {"", " "}

(* len(name), over the names the model uses: the text input caps at 100 *)
NameLen(name) == IF name = "" THEN 0 ELSE IF name = " " THEN 1 ELSE 30

MachineryRow(holder_id, has_item, equipment_name, qn, qu, qo, source) ==
    [holder_id |-> holder_id, has_item |-> has_item, equipment_name |-> equipment_name,
     quantity_new |-> qn, quantity_used |-> qu, quantity_out_of_service |-> qo,
     source |-> source]

(* the dict load_existing_data builds from a SELECTed row: no holder_id *)
LoadedMachineryRow(r) ==
    [has_item |-> r.has_item, equipment_name |-> r.equipment_name,
     quantity_new |-> r.quantity_new, quantity_used |-> r.quantity_used,
     quantity_out_of_service |-> r.quantity_out_of_service, source |-> r.source]

MachineryOf(table, holder_id) == SelectSeq(table, LAMBDA r : r.holder_id = holder_id)

(* DELETE FROM agricultural_machinery WHERE holder_id = %s *)
DeleteMachinery(table, holder_id) == SelectSeq(table, LAMBDA r : r.holder_id # holder_id)

(* INSERT ... VALUES %s with execute_values: one row per entry, in order *)
InsertMachinery(table, machinery_data) == table \o machinery_data

SaveFaults == {"none", "connect", "check", "delete", "insert", "commit"}

(* save_to_db: [table, ok, msgs] *)
save_to_db(table, machinery_data, fault) ==
    IF machinery_data = <<>>
    THEN [table |-> table, ok |-> FALSE, msgs |-> <<Msg("warning", "no_data", 0, "")>>]
    ELSE IF fault = "connect"
    THEN [table |-> table, ok |-> FALSE, msgs |-> <<Msg("error", "connect", 0, "")>>]
    ELSE
      LET holder_id   == machinery_data[1].holder_id
          count       == Len(MachineryOf(table, holder_id))
          afterDelete == IF count > 0 THEN DeleteMachinery(table, holder_id) ELSE table
          afterInsert == InsertMachinery(afterDelete, machinery_data)
          info        == IF count > 0 THEN <<Msg("info", "updating", 0, "")>> ELSE <<>>
          failed(working, m) ==
              [table |-> rollback(table, working), ok |-> FALSE,
               msgs |-> m \o <<Msg("error", "database", 0, "")>>]
      IN  CASE fault = "check"  -> failed(table, <<>>)
            [] fault = "delete" /\ count > 0 -> failed(table, info)
            [] fault = "insert" -> failed(afterDelete, info)
            [] fault = "commit" -> failed(afterInsert, info)
            [] OTHER -> [table |-> afterInsert, ok |-> TRUE, msgs |-> info]

(* load_existing_data: the holder's rows in id order, or [] when the read fails *)
load_existing_data(table, holder_id, readable) ==
    IF ~readable THEN <<>>
    ELSE LET rows == MachineryOf(table, holder_id)
         IN  [i \in 1..Len(rows) |-> LoadedMachineryRow(rows[i])] \o <<>>

QtyFields == <<"quantity_new", "quantity_used", "quantity_out_of_service">>

(* `if row["has_item"] == "Y": ... if total_qty == 0` *)
HasItemCheckOff(row, i) == <<>>

HasItemCheck(row, i) ==
    IF /\ row.has_item = "Y"
       /\ row.quantity_new + row.quantity_used + row.quantity_out_of_service = 0
    THEN <<Msg("error", "has_item_no_quantity", i, "has_item")>> ELSE <<>>

(* `if qty_value < 0 or qty_value > 20` *)
QuantityCheckUpperOnly(row, qty_type, i) ==
    IF row[qty_type] > 20
    THEN <<Msg("error", "quantity_out_of_range", i, qty_type)>> ELSE <<>>

QuantityCheck(row, qty_type, i) ==
    IF row[qty_type] < 0 \/ row[qty_type] > 20
    THEN <<Msg("error", "quantity_out_of_range", i, qty_type)>> ELSE <<>>

(* one row of validate_machinery_data: the st.error calls it makes, in order *)
RowMachineryErrors(i, row) ==
    LET name == row.equipment_name
        open == IF ContainsOpenEntry(name) /\ StripIsEmpty(row.equipment_name)
                THEN <<Msg("error", "open_entry_unspecified", i, "equipment_name")>> ELSE <<>>
        long == IF NameLen(name) > 100
                THEN <<Msg("error", "name_too_long", i, "equipment_name")>> ELSE <<>>
    IN  open \o long \o HasItemCheck(row, i)
             \o QuantityCheck(row, QtyFields[1], i)
             \o QuantityCheck(row, QtyFields[2], i)
             \o QuantityCheck(row, QtyFields[3], i)

(* a validator that returns at the first row with an error *)
RECURSIVE FirstRowErrors(_, _)
FirstRowErrors(machinery_data, i) ==
    IF i > Len(machinery_data) THEN <<>>
    ELSE IF RowMachineryErrors(i, machinery_data[i]) # <<>>
         THEN <<Head(RowMachineryErrors(i, machinery_data[i]))>>
         ELSE FirstRowErrors(machinery_data, i + 1)

MachineryErrorsFailFast(machinery_data) == FirstRowErrors(machinery_data, 1)

(* the messages of validate_machinery_data over all rows *)
MachineryErrors(machinery_data) ==
    Flatten([i \in 1..Len(machinery_data) |-> RowMachineryErrors(i, machinery_data[i])])

(* validate_machinery_data returns validation_passed *)
validate_machinery_data(machinery_data) == MachineryErrors(machinery_data) = <<>>

SourceOptions == {"O", "RL", "B"}

(* default_values of the form for line idx, updated with the saved row *)
default_values(existing_data, idx) ==
    IF existing_data # <<>> /\ idx <= Len(existing_data)
    THEN existing_data[idx]
    ELSE [has_item |-> "N", equipment_name |-> equipment_list[idx], quantity_new |-> 0,
          quantity_used |-> 0, quantity_out_of_service |-> 0, source |-> "O"]

(* the text the Open Entry input shows before the user types *)
default_name(existing_data, idx) ==
    IF existing_data # <<>> /\ idx <= Len(existing_data)
       /\ existing_data[idx].equipment_name # equipment_list[idx]
    THEN existing_data[idx].equipment_name ELSE ""

OpenEntryLabel(idx) == IF idx = 7 THEN "Open Entry 1" ELSE "Open Entry 2"

(* the widgets of line idx as they stand when nothing is touched *)
UntouchedWidgets(existing_data, idx) ==
    LET d == default_values(existing_data, idx)
    IN  [has_item |-> IF d.has_item = "Y" THEN "Y" ELSE "N",
         typed |-> default_name(existing_data, idx),
         quantity_new |-> d.quantity_new, quantity_used |-> d.quantity_used,
         quantity_out_of_service |-> d.quantity_out_of_service,
         source |-> IF d.source \in SourceOptions THEN d.source ELSE "O"]

(* machinery_data.append({...}) for line idx *)
FormRow(holder_id, idx, w) ==
    LET equipment == equipment_list[idx]
        equipment_name ==
            IF ContainsOpenEntry(equipment)
            THEN (IF w.typed = "" THEN OpenEntryLabel(idx) ELSE w.typed)
            ELSE equipment
    IN  MachineryRow(holder_id, w.has_item, equipment_name, w.quantity_new,
                     w.quantity_used, w.quantity_out_of_service, w.source)

(* What the user enters on the lines of the form that are touched: line 2,  *)
(* a listed equipment, and line 7, the first open entry.  The number inputs *)
(* declare 0..20; the validator is what the store relies on, so values      *)
(* outside the declared range are submitted as well.                         *)
Widgets(has_item, typed, qn, qu, qo, source) ==
    [has_item |-> has_item, typed |-> typed, quantity_new |-> qn, quantity_used |-> qu,
     quantity_out_of_service |-> qo, source |-> source]

ListedLineEntries ==
    { Widgets("N", "", 0, 0, 0, "O"),
      Widgets("Y", "", 0, 3, 0, "B"),
      Widgets("Y", "", 0, 0, 0, "O"),
      Widgets("N", "", 21, 0, 21, "B") }

OpenLineEntries ==
    { Widgets("N", "", 0, 0, 0, "O"),
      Widgets("Y", "Harrow", 1, 0, 20, "RL"),
      Widgets("Y", "Harrow", 1, -1, 0, "O") }

MachineryEdits == { (2 :> a) @@ (7 :> b) : a \in ListedLineEntries, b \in OpenLineEntries }

(* no widget touched *)
NoEdits == [idx \in {} |-> 0]

(* machinery_data as the form builds it *)
machinery_form(existing_data, holder_id, edits) ==
    [idx \in 1..Len(equipment_list) |->
        FormRow(holder_id, idx,
                IF idx \in DOMAIN edits THEN edits[idx]
                ELSE UntouchedWidgets(existing_data, idx))] \o <<>>

(* agricultural_machinery_section with the save button pressed: the form is *)
(* built from the saved rows and the user's entries, validated, and saved   *)
(* when validation passes.  `fault` is the statement of save_to_db that the *)
(* database fails, if any.                                                   *)
agricultural_machinery_section(holder_id, edits) ==
    \E existing_data \in {load_existing_data(agricultural_machinery, holder_id, TRUE)} :
    \E machinery_data \in {machinery_form(existing_data, holder_id, edits)} :
    \E errs \in {MachineryErrors(machinery_data)} :
        IF validate_machinery_data(machinery_data)
        THEN \E fault \in SaveFaults :
             \E saved \in {save_to_db(agricultural_machinery, machinery_data, fault)} :
                /\ agricultural_machinery' = saved.table
                /\ last' = [Outcome("machinery", holder_id, machinery_data, saved.msgs,
                                    TRUE, saved.ok, FALSE)
                              EXCEPT !.fault = IF saved.ok THEN "none" ELSE fault,
                                     !.prior = Len(existing_data)]
        ELSE /\ agricultural_machinery' = agricultural_machinery
             /\ last' = [Outcome("machinery", holder_id, machinery_data, errs,
                                 FALSE, FALSE, FALSE)
                           EXCEPT !.prior = Len(existing_data)]

(* agricultural_machinery_section with no button pressed: the form shows    *)
(* the saved rows, or the default values of each equipment line; `readable` *)
(* tells whether load_existing_data could read the table.                   *)
agricultural_machinery_rendered(holder_id, readable) ==
    \E existing_data \in {load_existing_data(agricultural_machinery, holder_id, readable)} :
    \E machinery_data \in {machinery_form(existing_data, holder_id, NoEdits)} :
        /\ agricultural_machinery' = agricultural_machinery
        /\ last' = [Outcome("machinery_render", holder_id, machinery_data, <<>>,
                            FALSE, FALSE, FALSE)
                      EXCEPT !.prior = Len(existing_data)]

----------------------------------------------------------------------------
(* modules/land_use.py *)

(* A value stored in a DECIMAL(n,2) column, in thousandths: PostgreSQL     *)
(* rounds to two decimals, half away from zero.                             *)
Decimal2(v) == IF v >= 0 THEN ((v + 5) \div 10) * 10 ELSE -(((-v + 5) \div 10) * 10)

(* years_agriculture DECIMAL(5,2): three digits before the point at most *)
Decimal52Overflows(v) == Decimal2(v) >= 1000000 \/ Decimal2(v) <= -1000000

(* label.lower().replace(" ", "_").replace("/", "_").replace("&", "and") *)
Slug(label) ==
    CASE label = "Privately Owned" -> "privately_owned"
      [] label = "Crown Leased/Rented" -> "crown_leased_rented"
      [] label = "Temporary Crops" -> "temporary_crops"
      [] label = "Forest & Other Wooded Land" -> "forest_and_other_wooded_land"
      [] label = "Regenerative" -> "regenerative"
      [] label = "Slash and burn" -> "slash_and_burn"
      [] OTHER -> label

LandUseOf(table, holder_id) == SelectSeq(table, LAMBDA r : r.holder_id = holder_id)

(* id SERIAL PRIMARY KEY of land_use *)
NextLandUseId(table) == Len(table) + 1

UpdateAsInsert(table, land_use_id, d) ==
    table \o [i \in 1..Len(LandUseOf(table, table[land_use_id].holder_id)) |->
                 [table[land_use_id] EXCEPT !.id = NextLandUseId(table)]]

(* UPDATE land_use SET ... WHERE id = %s *)
UpdateLandUse(table, land_use_id, d) ==
    [i \in 1..Len(table) |->
        IF table[i].id = land_use_id
        THEN [table[i] EXCEPT !.total_area_acres = Decimal2(d.total_area),
                              !.years_agriculture = Decimal2(d.years_used),
                              !.main_purpose = d.main_purpose,
                              !.num_parcels = d.num_parcels,
                              !.location = d.location,
                              !.crop_methods = d.crop_methods]
        ELSE table[i]] \o <<>>

(* INSERT INTO land_use (...) VALUES (...) RETURNING id *)
InsertLandUse(table, holder_id, d) ==
    Append(table, [id |-> NextLandUseId(table), holder_id |-> holder_id,
                   total_area_acres |-> Decimal2(d.total_area),
                   years_agriculture |-> Decimal2(d.years_used),
                   main_purpose |-> d.main_purpose, num_parcels |-> d.num_parcels,
                   location |-> d.location, crop_methods |-> d.crop_methods])

(* DELETE FROM land_use_parcels WHERE land_use_id = %s *)
DeleteParcelsNone(table, land_use_id) == table

DeleteParcels(table, land_use_id) == SelectSeq(table, LAMBDA r : r.land_use_id # land_use_id)

ParcelRow(land_use_id, p) ==
    [land_use_id |-> land_use_id, parcel_no |-> p.parcel_no,
     total_acres |-> Decimal2(p.total_acres), developed_acres |-> Decimal2(p.developed_acres),
     tenure |-> p.tenure, use_of_land |-> p.use_of_land,
     irrigated_area |-> Decimal2(p.irrigated_area), land_clearing |-> p.land_clearing]

(* INSERT INTO land_use_parcels (...) VALUES %s *)
InsertParcels(table, land_use_id, parcels) ==
    table \o ([i \in 1..Len(parcels) |-> ParcelRow(land_use_id, parcels[i])] \o <<>>)

(* UNIQUE(land_use_id, parcel_no) would be broken by the rows to insert *)
DuplicateParcelNo(parcels) ==
    \E i, j \in 1..Len(parcels) : i < j /\ parcels[i].parcel_no = parcels[j].parcel_no

LandUseFaults == {"none", "connect", "select", "write_main", "delete_parcels",
                  "insert_parcels", "commit"}

(* save_land_use_to_db: [land_use, parcels, ok, msgs] *)
save_land_use_to_db(main_table, parcel_table, land_use_data, holder_id, fault) ==
    LET unchanged(code) ==
            [land_use |-> main_table, parcels |-> parcel_table, ok |-> FALSE,
             msgs |-> <<Msg("error", code, 0, "")>>]
        existing    == LandUseOf(main_table, holder_id)
        land_use_id == IF existing # <<>> THEN existing[1].id ELSE NextLandUseId(main_table)
        mainAfter   == IF existing # <<>>
                       THEN UpdateLandUse(main_table, land_use_id, land_use_data)
                       ELSE InsertLandUse(main_table, holder_id, land_use_data)
        afterDelete == IF existing # <<>> THEN DeleteParcels(parcel_table, land_use_id)
                       ELSE parcel_table
        afterInsert == InsertParcels(afterDelete, land_use_id, land_use_data.parcels)
        failed(m, p) ==
            [land_use |-> rollback(main_table, m), parcels |-> rollback(parcel_table, p),
             ok |-> FALSE, msgs |-> <<Msg("error", "saving", 0, "")>>]
    IN  CASE fault = "connect" -> unchanged("connect")
          [] fault = "select" -> failed(main_table, parcel_table)
          [] fault = "write_main" \/ Decimal52Overflows(land_use_data.years_used)
                -> failed(main_table, parcel_table)
          [] fault = "delete_parcels" /\ existing # <<>> -> failed(mainAfter, parcel_table)
          [] (fault = "insert_parcels" /\ land_use_data.parcels # <<>>)
             \/ DuplicateParcelNo(land_use_data.parcels)
                -> failed(mainAfter, afterDelete)
          [] fault = "commit" -> failed(mainAfter, afterInsert)
          [] OTHER -> [land_use |-> mainAfter, parcels |-> afterInsert, ok |-> TRUE,
                       msgs |-> <<Msg("success", "saved", 0, "")>>]

(* rows sorted by parcel_no: ORDER BY parcel_no *)
RECURSIVE SortByParcelNo(_)
SortByParcelNo(rows) ==
    IF rows = <<>> THEN <<>>
    ELSE LET m == CHOOSE i \in 1..Len(rows) :
                      \A j \in 1..Len(rows) :
                          \/ rows[i].parcel_no < rows[j].parcel_no
                          \/ (rows[i].parcel_no = rows[j].parcel_no /\ i <= j)
         IN  <<rows[m]>> \o SortByParcelNo(SubSeq(rows, 1, m - 1) \o SubSeq(rows, m + 1, Len(rows)))

LoadedParcel(r) ==
    [parcel_no |-> r.parcel_no, total_acres |-> r.total_acres,
     developed_acres |-> r.developed_acres, tenure |-> r.tenure,
     use_of_land |-> r.use_of_land, irrigated_area |-> r.irrigated_area,
     land_clearing |-> r.land_clearing]

(* the holder's rows of land_use_parcels, in id order *)
StoredParcels(main_table, parcel_table, holder_id) ==
    SelectSeq(parcel_table,
              LAMBDA r : \E i \in 1..Len(main_table) :
                            /\ main_table[i].holder_id = holder_id
                            /\ main_table[i].id = r.land_use_id)

(* load_existing_land_use_data: [main_info, parcels_data]; (None, None) when *)
(* the read fails                                                            *)
load_existing_land_use_data(main_table, parcel_table, holder_id, readable) ==
    IF ~readable THEN [main_info |-> NULL, parcels_data |-> NULL]
    ELSE LET mine == LandUseOf(main_table, holder_id)
             ids  == {mine[i].id : i \in 1..Len(mine)}
             rows == SortByParcelNo(SelectSeq(parcel_table, LAMBDA r : r.land_use_id \in ids))
         IN  [main_info |-> IF mine = <<>> THEN NULL
                            ELSE [total_area |-> mine[1].total_area_acres,
                                  years_used |-> mine[1].years_agriculture,
                                  main_purpose |-> mine[1].main_purpose,
                                  num_parcels |-> mine[1].num_parcels,
                                  location |-> mine[1].location,
                                  crop_methods |-> mine[1].crop_methods],
              parcels_data |-> [i \in 1..Len(rows) |-> LoadedParcel(rows[i])] \o <<>>]

(* validate_main_land_use: the errors list *)
validate_main_land_use(total_area, years_used, crop_methods, num_parcels, location) ==
    (IF total_area <= 0 THEN <<Msg("error", "total_area_not_positive", 0, "total_area")>> ELSE <<>>)
    \o (IF years_used < 0 THEN <<Msg("error", "years_negative", 0, "years_used")>> ELSE <<>>)
    \o (IF crop_methods = <<>> THEN <<Msg("error", "no_crop_method", 0, "crop_methods")>> ELSE <<>>)
    \o (IF num_parcels < 1 THEN <<Msg("error", "num_parcels_below_one", 0, "num_parcels")>> ELSE <<>>)
    \o (IF StripIsEmpty(location) THEN <<Msg("error", "location_empty", 0, "location")>> ELSE <<>>)
    \o (IF NameLen(location) > 200 THEN <<Msg("error", "location_too_long", 0, "location")>> ELSE <<>>)

(* one row of validate_parcels: errors appended and st.warning calls, in order *)
IrrigatedIsError(irrigated_area, total_acres, i) ==
    IF irrigated_area > total_acres
    THEN <<Msg("error", "irrigated_exceeds_total", i, "irrigated_area")>> ELSE <<>>

IrrigatedCheck(irrigated_area, total_acres, i) ==
    IF irrigated_area > total_acres
    THEN <<Msg("warning", "irrigated_exceeds_total", i, "irrigated_area")>> ELSE <<>>

DevelopedCheck(developed_acres, total_acres, i) ==
    IF developed_acres > total_acres
    THEN <<Msg("error", "developed_exceeds_total", i, "developed_acres")>> ELSE <<>>

RowParcelMessages(i, row) ==
    (IF row.total_acres < 0 THEN <<Msg("error", "total_negative", i, "total_acres")>> ELSE <<>>)
    \o (IF row.developed_acres < 0
        THEN <<Msg("error", "developed_negative", i, "developed_acres")>> ELSE <<>>)
    \o (IF row.irrigated_area < 0
        THEN <<Msg("error", "irrigated_negative", i, "irrigated_area")>> ELSE <<>>)
    \o DevelopedCheck(row.developed_acres, row.total_acres, i)
    \o IrrigatedCheck(row.irrigated_area, row.total_acres, i)

(* validate_parcels over the rows of the data editor *)
ParcelMessages(parcels_df) ==
    Flatten([i \in 1..Len(parcels_df) |-> RowParcelMessages(i, parcels_df[i])] \o <<>>)

validate_parcels(parcels_df) == Errors(ParcelMessages(parcels_df))

(* parcels_list.append({...}): the row of the editor as it is saved *)
ParcelToSave(row) ==
    [parcel_no |-> row.parcel_no, total_acres |-> row.total_acres,
     developed_acres |-> row.developed_acres, tenure |-> Slug(row.tenure),
     use_of_land |-> Slug(row.use_of_land), irrigated_area |-> row.irrigated_area,
     land_clearing |-> Slug(row.land_clearing)]

(* land_use_data *)
LandUseData(m, edited_df) ==
    [total_area |-> m.total_area, years_used |-> m.years_used,
     main_purpose |-> m.main_purpose, num_parcels |-> m.num_parcels,
     location |-> m.location, crop_methods |-> m.crop_methods,
     parcels |-> [i \in 1..Len(edited_df) |-> ParcelToSave(edited_df[i])] \o <<>>]

(* What the user enters.  Acreages of the data editor have two decimals    *)
(* (its columns set step 0.01); the number inputs of the main record return *)
(* what was typed.                                                           *)
MainFields(total_area, years_used, main_purpose, num_parcels, location, crop_methods) ==
    [total_area |-> total_area, years_used |-> years_used, main_purpose |-> main_purpose,
     num_parcels |-> num_parcels, location |-> location, crop_methods |-> crop_methods]

EditorRow(parcel_no, total_acres, developed_acres, irrigated_area, tenure, use, clearing) ==
    [parcel_no |-> parcel_no, total_acres |-> total_acres,
     developed_acres |-> developed_acres, irrigated_area |-> irrigated_area,
     tenure |-> tenure, use_of_land |-> use, land_clearing |-> clearing]

(* the parcels table a form without saved parcels starts with *)
parcels_df == <<EditorRow(1, 0, 0, 0, "Privately Owned", "Temporary Crops", "Regenerative")>>

MainCommercial == MainFields(1000, 5000, "For Sale Only/Commercial", 1, "Nassau", <<"Tunnel">>)

MainSubsistence ==
    MainFields(2505, 0, "For Consumption Only/Subsistence", 2, "Exuma",
               <<"Open Field", "Greenhouse">>)

MainTooOld == MainFields(1000, 1000000, "For Sale Only/Commercial", 1, "Nassau", <<"Tunnel">>)

MainAllWrong == MainFields(0, -1000, "For Sale Only/Commercial", 0, " ", <<>>)

ParcelA == EditorRow(1, 2000, 1000, 500, "Privately Owned", "Temporary Crops", "Regenerative")

ParcelB ==
    EditorRow(2, 1000, 1000, 0, "Crown Leased/Rented", "Forest & Other Wooded Land",
              "Slash and burn")

ParcelIrrigatedOver ==
    EditorRow(2, 1000, 500, 1500, "Privately Owned", "Temporary Crops", "Regenerative")

ParcelDevelopedOver ==
    EditorRow(1, 1000, 2000, 0, "Privately Owned", "Temporary Crops", "Regenerative")

ParcelBothOver ==
    EditorRow(1, 1000, 2000, 3000, "Privately Owned", "Temporary Crops", "Regenerative")

ParcelNegative ==
    EditorRow(3, -1000, 0, -500, "Privately Owned", "Temporary Crops", "Regenerative")

LandUseForms ==
    ({MainCommercial} \X {<<ParcelA>>, <<ParcelB, ParcelA>>, <<ParcelA, ParcelA>>,
                          <<ParcelDevelopedOver>>, <<ParcelBothOver, ParcelNegative>>})
    \cup ({MainSubsistence} \X {<<>>, <<ParcelA, ParcelIrrigatedOver>>})
    \cup ({MainTooOld} \X {<<ParcelA>>})
    \cup ({MainAllWrong} \X {<<ParcelA>>, <<ParcelA, ParcelDevelopedOver>>})

(* land_use_section with the save button pressed *)
land_use_section(holder_id, m, edited_df) ==
    \E main_errors \in {validate_main_land_use(m.total_area, m.years_used, m.crop_methods,
                                               m.num_parcels, m.location)} :
    \E parcel_msgs \in {ParcelMessages(edited_df)} :
    \E all_errors \in {main_errors \o validate_parcels(edited_df)} :
    \E land_use_data \in {LandUseData(m, edited_df)} :
        /\ session_state' = SessionSet(session_state, [land_use_parcels |-> edited_df])
        /\ IF all_errors # <<>>
           THEN /\ UNCHANGED <<land_use, land_use_parcels>>
                /\ last' = [Outcome("land_use", holder_id, land_use_data,
                                    Warnings(parcel_msgs) \o all_errors, FALSE, FALSE, FALSE)
                              EXCEPT !.prior = Len(StoredParcels(land_use, land_use_parcels,
                                                                 holder_id))]
           ELSE \E fault \in LandUseFaults :
                \E saved \in {save_land_use_to_db(land_use, land_use_parcels, land_use_data,
                                                  holder_id, fault)} :
                    /\ land_use' = saved.land_use
                    /\ land_use_parcels' = saved.parcels
                    /\ last' = [Outcome("land_use", holder_id, land_use_data,
                                        Warnings(parcel_msgs) \o saved.msgs,
                                        TRUE, saved.ok, FALSE)
                                  EXCEPT !.fault = IF saved.ok THEN "none" ELSE fault,
                                         !.prior = Len(StoredParcels(land_use, land_use_parcels,
                                                                     holder_id))]

(* land_use_section with no button pressed: the main fields show the saved  *)
(* record or the default values, the data editor shows                       *)
(* st.session_state.land_use_parcels, which is set from the saved parcels,   *)
(* or to one empty parcel, only when the session does not have it yet.       *)
land_use_rendered(holder_id, readable) ==
    \E loaded \in {load_existing_land_use_data(land_use, land_use_parcels, holder_id,
                                               readable)} :
    \E main \in {IF readable /\ LandUseOf(land_use, holder_id) # <<>>
                 THEN loaded.main_info
                 ELSE MainFields(0, 0, "For Sale Only/Commercial", 1, "", <<>>)} :
    \E new_df \in {IF readable /\ StoredParcels(land_use, land_use_parcels, holder_id) # <<>>
                   THEN loaded.parcels_data
                   ELSE parcels_df} :
    \E shown \in {SessionGet(session_state, "land_use_parcels", new_df)} :
        /\ session_state' = SessionSet(session_state, [land_use_parcels |-> shown])
        /\ UNCHANGED <<land_use, land_use_parcels>>
        /\ last' = [Outcome("land_use_render", holder_id, [main |-> main, parcels |-> shown],
                            <<>>, FALSE, FALSE, FALSE)
                      EXCEPT !.prior = Len(StoredParcels(land_use, land_use_parcels,
                                                         holder_id))]

----------------------------------------------------------------------------
(* holder_survey_progress: a bag of rows; a row's id is not modelled, two  *)
(* equal rows are two copies in the bag.                                    *)

RECURSIVE SumOver(_, _)
SumOver(S, f) ==
    IF S = {} THEN 0
    ELSE LET x == CHOOSE y \in S : TRUE IN f[x] + SumOver(S \ {x}, f)

ProgressRow(holder_id, column, section) ==
    [holder_id |-> holder_id,
     section_id |-> IF column = "section_id" THEN section ELSE NullInt,
     section_no |-> IF column = "section_no" THEN section ELSE NullInt,
     completed |-> TRUE]

(* UPDATE holder_survey_progress SET completed = TRUE WHERE id = :id *)
SetCompletedFalse(table, row) ==
    (table (-) SetToBag({row})) (+) SetToBag({[row EXCEPT !.completed = FALSE]})

SetCompleted(table, row) ==
    (table (-) SetToBag({row})) (+) SetToBag({[row EXCEPT !.completed = TRUE]})

(* INSERT INTO holder_survey_progress(holder_id, <column>, completed) *)
InsertProgress(table, holder_id, column, section) ==
    table (+) SetToBag({ProgressRow(holder_id, column, section)})

MarkFaults == {"none", "select", "write"}

(* The body the three mark_section_complete functions share; they differ in *)
(* the column they name.  A statement naming a column the table does not    *)
(* have raises.  [table, raised, path]                                       *)
mark_progress(table, columns, column, holder_id, section, fault) ==
    IF column \notin columns \/ fault = "select"
    THEN [table |-> table, raised |-> TRUE, path |-> "none"]
    ELSE LET exists == {r \in BagToSet(table) : r.holder_id = holder_id /\ r[column] = section}
             row    == CHOOSE r \in exists : TRUE
         IN  IF fault = "write"
             THEN [table |-> table, raised |-> TRUE, path |-> "none"]
             ELSE IF exists # {}
                  THEN [table |-> SetCompleted(table, row), raised |-> FALSE, path |-> "update"]
                  ELSE [table |-> InsertProgress(table, holder_id, column, section),
                        raised |-> FALSE, path |-> "insert"]

(* main_survey.mark_section_complete(holder_id, section_no) *)
main_survey_mark_section_complete(table, columns, holder_id, section_no, fault) ==
    mark_progress(table, columns, "section_no", holder_id, section_no, fault)

(* holding_labour.mark_section_complete(holder_id), SECTION_NO = 2 *)
holding_labour_mark_section_complete(table, columns, holder_id, fault) ==
    mark_progress(table, columns, "section_id", holder_id, 2, fault)

(* holding_labour_permanent.mark_section_complete(holder_id), SECTION_NO = 3 *)
permanent_mark_section_complete(table, columns, holder_id, fault) ==
    mark_progress(table, columns, "section_id", holder_id, 3, fault)

TOTAL_SURVEY_SECTIONS == 5

(* get_completed_sections: the section_no of the holder's completed rows, as *)
(* a bag (the list the SELECT returns, without its order).  [raised, sections] *)
get_completed_sections(table, columns, holder_id) ==
    IF "section_no" \notin columns
    THEN [raised |-> TRUE, sections |-> EmptyBag]
    ELSE LET rows == {r \in BagToSet(table) : r.holder_id = holder_id /\ r.completed}
         IN  [raised |-> FALSE,
              sections |-> [v \in {r.section_no : r \in rows} |->
                              SumOver({r \in rows : r.section_no = v}, table)]]

(* st.progress(len(completed_sections) / TOTAL_SURVEY_SECTIONS): <<num, den>> *)
progress_fraction(completed_sections) ==
    <<BagCardinality(completed_sections), TOTAL_SURVEY_SECTIONS>>

(* What a run describes of its mark_section_complete call *)
MarkInfo(column, section, m) ==
    [called |-> TRUE, column |-> column, section |-> section, raised |-> m.raised,
     path |-> m.path]

----------------------------------------------------------------------------
(* holding_labour.py: the labour wizard, one question per page *)

LabourRow(holder_id, question_no, male_count, female_count, total_count, option_response) ==
    [holder_id |-> holder_id, question_no |-> question_no,
     male_count |-> male_count, female_count |-> female_count,
     total_count |-> total_count, option_response |-> option_response]

default_questions == <<2, 3, 4, 5, 6, 7>>

InitializeTwice(table, holder_id) ==
    table \o [i \in 1..(2 * Len(default_questions)) |->
                LabourRow(holder_id, default_questions[((i - 1) % Len(default_questions)) + 1],
                          0, 0, 0, "Not Applicable")]

(* one transaction inserting the six default rows *)
initialize_labour_questions(table, holder_id) ==
    table \o [i \in 1..Len(default_questions) |->
                LabourRow(holder_id, default_questions[i], 0, 0, 0, "Not Applicable")]

(* ORDER BY question_no: the row at place k is the one that k - 1 rows     *)
(* precede, earlier rows first among equal question numbers                *)
SortByQuestionNo(rows) ==
    [k \in 1..Len(rows) |->
        rows[CHOOSE i \in 1..Len(rows) :
                Cardinality({j \in 1..Len(rows) :
                                \/ rows[j].question_no < rows[i].question_no
                                \/ (rows[j].question_no = rows[i].question_no /\ j < i)})
                   = k - 1]]

fetch_questions(table, holder_id) ==
    SortByQuestionNo(SelectSeq(table, LAMBDA r : r.holder_id = holder_id)) \o <<>>

HasQuestionNever(questions, no) == FALSE

(* next((q for q in questions if q["question_no"] == no), None) is not None *)
HasQuestion(questions, no) ==
    \E i \in 1..Len(questions) : questions[i].question_no = no

(* the answer the widgets of question q give: counts for 2..4, an option else *)
LabourAnswer(holder_id, question_no, counts, option) ==
    IF question_no \in {2, 3, 4}
    THEN LabourRow(holder_id, question_no, counts[1], counts[2], counts[1] + counts[2], NULL)
    ELSE LabourRow(holder_id, question_no, NullInt, NullInt, NullInt, option)

InsertLabourAlways(table, data) == table \o <<data>>

(* SELECT id ...; UPDATE ... WHERE holder_id AND question_no, or INSERT *)
UpsertLabour(table, data) ==
    IF \E i \in 1..Len(table) : /\ table[i].holder_id = data.holder_id
                                /\ table[i].question_no = data.question_no
    THEN [i \in 1..Len(table) |->
            IF table[i].holder_id = data.holder_id /\ table[i].question_no = data.question_no
            THEN data ELSE table[i]]
    ELSE table \o <<data>>

LabourFaults == {"none", "init", "save", "mark"}

MarkFaultOf(fault) == IF fault = "mark" THEN "select" ELSE "none"

(* One run of labour_form_page; clicked tells that "Save & Next" was pressed. *)
(* An exception leaves the run where it is raised; what the run assigned to  *)
(* the session before stays assigned.                                        *)
labour_form_page(holder_id, clicked, counts, option, fault) ==
    \E questions0 \in {fetch_questions(holding_labour, holder_id)} :
    IF questions0 = <<>> /\ fault = "init"
    THEN /\ UNCHANGED <<holding_labour, holder_survey_progress, session_state>>
         /\ last' = [Outcome("labour", holder_id, <<>>, <<>>, FALSE, FALSE, TRUE)
                       EXCEPT !.fault = fault]
    ELSE
    \E table1 \in {IF questions0 = <<>>
                   THEN initialize_labour_questions(holding_labour, holder_id)
                   ELSE holding_labour} :
    \E questions \in {fetch_questions(table1, holder_id)} :
    \E sess1 \in {IF \/ "labour_current_form" \notin DOMAIN session_state
                     \/ SessionGet(session_state, "labour_holder_id", 0) # holder_id
                  THEN SessionSet(session_state,
                                  [labour_current_form |-> 2, labour_holder_id |-> holder_id,
                                   labour_complete |-> FALSE])
                  ELSE session_state} :
    \E current_q \in {sess1.labour_current_form} :
    \E m \in {holding_labour_mark_section_complete(holder_survey_progress, progress_columns,
                                                    holder_id, MarkFaultOf(fault))} :
       IF ~HasQuestion(questions, current_q)
       THEN /\ holding_labour' = table1
            /\ holder_survey_progress' = m.table
            /\ session_state' = IF m.raised THEN sess1
                                ELSE SessionSet(sess1, [labour_complete |-> TRUE])
            /\ last' = [Outcome("labour", holder_id, <<>>, <<>>, FALSE, FALSE, m.raised)
                          EXCEPT !.mark = MarkInfo("section_id", 2, m),
                                 !.fault = IF fault = "mark" THEN fault ELSE "none",
                                 !.prior = Len(questions)]
       ELSE IF ~clicked
       THEN /\ holding_labour' = table1
            /\ UNCHANGED holder_survey_progress
            /\ session_state' = sess1
            /\ last' = Outcome("labour", holder_id, <<>>, <<>>, FALSE, FALSE, FALSE)
       ELSE
       \E data \in {LabourAnswer(holder_id, current_q, counts, option)} :
       IF fault = "save"
       THEN /\ holding_labour' = table1
            /\ UNCHANGED holder_survey_progress
            /\ session_state' = sess1
            /\ last' = [Outcome("labour", holder_id, data, <<>>, TRUE, FALSE, TRUE)
                          EXCEPT !.fault = fault, !.prior = Len(questions)]
       ELSE IF HasQuestion(questions, current_q + 1)
       THEN /\ holding_labour' = UpsertLabour(table1, data)
            /\ UNCHANGED holder_survey_progress
            /\ session_state' = SessionSet(sess1, [labour_current_form |-> current_q + 1])
            /\ last' = [Outcome("labour", holder_id, data, <<>>, TRUE, TRUE, FALSE)
                          EXCEPT !.prior = Len(questions)]
       ELSE /\ holding_labour' = UpsertLabour(table1, data)
            /\ holder_survey_progress' = m.table
            /\ session_state' = SessionSet(sess1, [labour_complete |-> TRUE])
            /\ last' = [Outcome("labour", holder_id, data, <<>>, TRUE, TRUE, m.raised)
                          EXCEPT !.mark = MarkInfo("section_id", 2, m),
                                 !.fault = IF fault = "mark" THEN fault ELSE "none",
                                 !.prior = Len(questions)]

----------------------------------------------------------------------------
(* holding_labour_permanent.py: up to max_rows worker lines per holder *)

Worker(position_title, sex, age_group, nationality, education_level, agri_training, main_duties, working_time) ==
    [position_title |-> position_title, sex |-> sex, age_group |-> age_group,
     nationality |-> nationality, education_level |-> education_level,
     agri_training |-> agri_training, main_duties |-> main_duties,
     working_time |-> working_time]

WorkerRow(holder_id, w) == [holder_id |-> holder_id] @@ w

PermanentOf(table, holder_id) == SelectSeq(table, LAMBDA r : r.holder_id = holder_id)

(* SELECT * FROM holding_labour_permanent WHERE holder_id = :hid ORDER BY id *)
load_permanent_workers(table, holder_id) == PermanentOf(table, holder_id)

(* DELETE FROM holding_labour_permanent WHERE holder_id = :hid *)
DeletePermanent(table, holder_id) == SelectSeq(table, LAMBDA r : r.holder_id # holder_id)

(* the INSERT loop; a row without position_title is skipped *)
InsertPermanent(table, holder_id, permanent_data) ==
    table \o [i \in 1..Len(SelectSeq(permanent_data, LAMBDA w : w.position_title # "")) |->
                WorkerRow(holder_id, SelectSeq(permanent_data, LAMBDA w : w.position_title # "")[i])]

PermanentFaults == {"none", "delete", "insert", "commit", "mark"}

SaveWithoutTransaction(table, holder_id, permanent_data, fault) ==
    LET deleted  == DeletePermanent(table, holder_id)
        partial  == InsertPermanent(deleted, holder_id, SubSeq(permanent_data, 1, Len(permanent_data) - 1))
        inserted == InsertPermanent(deleted, holder_id, permanent_data)
    IN  CASE fault = "delete" -> [table |-> table \o <<>>, ok |-> TRUE]
          [] fault = "insert" -> [table |-> partial \o <<>>, ok |-> TRUE]
          [] OTHER            -> [table |-> inserted \o <<>>, ok |-> TRUE]

(* the `with engine.begin()` block of the save button: [table, ok] *)
save_permanent_workers(table, holder_id, permanent_data, fault) ==
    LET deleted  == DeletePermanent(table, holder_id)
        partial  == InsertPermanent(deleted, holder_id, SubSeq(permanent_data, 1, Len(permanent_data) - 1))
        inserted == InsertPermanent(deleted, holder_id, permanent_data)
    IN  CASE fault = "delete" -> [table |-> rollback(table, table), ok |-> FALSE]
          [] fault = "insert" -> [table |-> rollback(table, partial), ok |-> FALSE]
          [] fault = "commit" -> [table |-> rollback(table, inserted), ok |-> FALSE]
          [] OTHER            -> [table |-> inserted \o <<>>, ok |-> TRUE]

(* One run of holding_labour_permanent_form.  widgets are the values the    *)
(* max_rows worker lines show; every line is written back to the session.   *)
holding_labour_permanent_form(holder_id, max_rows, clicked, widgets, fault) ==
    \E loaded \in {IF \/ "permanent_data" \notin DOMAIN session_state
                      \/ session_state.selected_holder # holder_id
                   THEN load_permanent_workers(holding_labour_permanent, holder_id)
                   ELSE session_state.permanent_data} :
    \E permanent_data \in {[i \in 1..(IF Len(loaded) > max_rows THEN Len(loaded) ELSE max_rows) |->
                              IF i <= max_rows THEN widgets[i] ELSE loaded[i]]} :
       /\ session_state' = SessionSet(session_state,
                                       [permanent_data |-> permanent_data,
                                        selected_holder |-> holder_id])
       /\ IF ~clicked
          THEN /\ UNCHANGED <<holding_labour_permanent, holder_survey_progress>>
               /\ last' = Outcome("permanent", holder_id, <<>>, <<>>, FALSE, FALSE, FALSE)
          ELSE
          \E saved \in {save_permanent_workers(holding_labour_permanent, holder_id,
                                               permanent_data, fault)} :
          \E m \in {permanent_mark_section_complete(holder_survey_progress, progress_columns,
                                                    holder_id, MarkFaultOf(fault))} :
             /\ holding_labour_permanent' = saved.table
             /\ IF saved.ok
                THEN /\ holder_survey_progress' = m.table
                     /\ last' = [Outcome("permanent", holder_id, permanent_data,
                                         IF m.raised THEN <<Msg("error", "save_failed", 0, "")>>
                                         ELSE <<>>,
                                         TRUE, TRUE, FALSE)
                                   EXCEPT !.mark = MarkInfo("section_id", 3, m),
                                          !.fault = fault,
                                          !.prior = Len(PermanentOf(holding_labour_permanent,
                                                                    holder_id))]
                ELSE /\ UNCHANGED holder_survey_progress
                     /\ last' = [Outcome("permanent", holder_id, permanent_data,
                                         <<Msg("error", "save_failed", 0, "")>>,
                                         TRUE, FALSE, FALSE)
                                   EXCEPT !.fault = fault,
                                          !.prior = Len(PermanentOf(holding_labour_permanent,
                                                                    holder_id))]

(* the first value of each option list: what row.get(field, first) shows for *)
(* a slot whose session row is {}                                            *)
FirstOptions == Worker("1", "M", "1", "B", "1", "Y", "1", "N")

WorkerOf(row) == [f \in DOMAIN row \ {"holder_id"} |-> row[f]]

(* the values the worker lines show when the user touches no widget *)
ShownUntouched(holder_id, max_rows) ==
    LET loaded == IF \/ "permanent_data" \notin DOMAIN session_state
                     \/ session_state.selected_holder # holder_id
                  THEN load_permanent_workers(holding_labour_permanent, holder_id)
                  ELSE session_state.permanent_data
    IN  [i \in 1..max_rows |-> IF i <= Len(loaded) THEN WorkerOf(loaded[i]) ELSE FirstOptions]

WorkerManager == Worker("1", "M", "1", "B", "1", "Y", "1", "N")
WorkerLabourer == Worker("2", "F", "3", "NB", "4", "N", "7", "F")
WorkerEntries == {WorkerManager, WorkerLabourer}

----------------------------------------------------------------------------
(* main_survey.py: the survey page with its progress bar and the           *)
(* "Mark Section n Complete" buttons.  The renderers of the sections come   *)
(* from modules the page imports; the page's own statements are modelled.   *)

(* One run of run_main_survey with section_no selected and its button pressed *)
run_main_survey(holder_id, section_no, fault) ==
    \E completed_sections \in {get_completed_sections(holder_survey_progress,
                                                       progress_columns, holder_id)} :
    IF \/ completed_sections.raised
       \/ progress_fraction(completed_sections.sections)[1] > TOTAL_SURVEY_SECTIONS
    THEN /\ UNCHANGED holder_survey_progress
         /\ last' = Outcome("survey", holder_id, section_no, <<>>, FALSE, FALSE, TRUE)
    ELSE
    \E m \in {main_survey_mark_section_complete(holder_survey_progress, progress_columns,
                                                holder_id, section_no, fault)} :
         /\ holder_survey_progress' = m.table
         /\ last' = [Outcome("survey", holder_id, section_no, <<>>, FALSE, FALSE, m.raised)
                       EXCEPT !.mark = MarkInfo("section_no", section_no, m),
                              !.fault = fault]

----------------------------------------------------------------------------
(* The program *)

NoSession == [k \in {} |-> 0]

(* no request has a transaction open *)
NoConns == [p \in {} |-> 0]

(* main_app.py is not running: no browser session, no registration *)
NoRegistrations ==
    /\ sessions = [p \in {} |-> 0]
    /\ registration_form = <<>>
    /\ registration_form_id_seq = 0

EmptyStore ==
    /\ agricultural_machinery = <<>>
    /\ land_use = <<>>
    /\ land_use_parcels = <<>>
    /\ holding_labour = <<>>
    /\ holding_labour_permanent = <<>>
    /\ holder_survey_progress = EmptyBag
    /\ session_state = NoSession
    /\ conns = NoConns
    /\ users = <<>>
    /\ holders = <<>>
    /\ current_section = NullInt
    /\ last = NoOutcome
    /\ NoRegistrations

(* streamlit run agricultural_machinery.py *)
InitMachinery ==
    /\ app = "machinery"
    /\ progress_columns = {"section_id", "section_no"}
    /\ EmptyStore

MachinerySubmit ==
    /\ app = "machinery"
    /\ \E holder_id \in Holders, edits \in MachineryEdits :
          agricultural_machinery_section(holder_id, edits)
    /\ UNCHANGED <<app, main_app_state, conns, users, holders, current_section, progress_columns, land_use, land_use_parcels, holding_labour,
                   holding_labour_permanent, holder_survey_progress, session_state>>

(* the page is opened or rerun with no button pressed *)
MachineryRender ==
    /\ app = "machinery"
    /\ \E holder_id \in Holders, readable \in BOOLEAN :
          agricultural_machinery_rendered(holder_id, readable)
    /\ UNCHANGED <<app, main_app_state, conns, users, holders, current_section, progress_columns, land_use,
                   land_use_parcels, holding_labour, holding_labour_permanent,
                   holder_survey_progress, session_state>>

NextMachinery ==
    \/ MachinerySubmit
    \/ MachineryRender

(* streamlit run land_use.py *)
InitLandUse ==
    /\ app = "land_use"
    /\ progress_columns = {"section_id", "section_no"}
    /\ EmptyStore

LandUseSubmit ==
    /\ app = "land_use"
    /\ \E holder_id \in Holders, form \in LandUseForms :
          land_use_section(holder_id, form[1], form[2])
    /\ UNCHANGED <<app, main_app_state, conns, users, holders, current_section, progress_columns, agricultural_machinery, holding_labour,
                   holding_labour_permanent, holder_survey_progress>>

(* the page is opened or rerun with no button pressed *)
LandUseRender ==
    /\ app = "land_use"
    /\ \E holder_id \in Holders, readable \in BOOLEAN :
          land_use_rendered(holder_id, readable)
    /\ UNCHANGED <<app, main_app_state, conns, users, holders, current_section, progress_columns,
                   agricultural_machinery, holding_labour, holding_labour_permanent,
                   holder_survey_progress>>

NextLandUse ==
    \/ LandUseSubmit
    \/ LandUseRender

SpecLandUse == InitLandUse /\ [][NextLandUse]_vars

SpecMachinery == InitMachinery /\ [][NextMachinery]_vars

(* streamlit run holding_labour_permanent.py *)
InitPermanent ==
    /\ app = "permanent"
    /\ progress_columns = {"section_id", "section_no"}
    /\ EmptyStore

PermanentRender ==
    /\ app = "permanent"
    /\ \E holder_id \in Holders, widgets \in [1..MaxRows -> WorkerEntries] :
          holding_labour_permanent_form(holder_id, MaxRows, FALSE, widgets, "none")
    /\ UNCHANGED <<app, main_app_state, conns, users, holders, current_section, progress_columns, agricultural_machinery, land_use,
                   land_use_parcels, holding_labour>>

(* the page is opened and no widget is touched *)
PermanentOpen ==
    /\ app = "permanent"
    /\ \E holder_id \in Holders :
          holding_labour_permanent_form(holder_id, MaxRows, FALSE,
                                        ShownUntouched(holder_id, MaxRows), "none")
    /\ UNCHANGED <<app, main_app_state, conns, users, holders, current_section, progress_columns, agricultural_machinery, land_use,
                   land_use_parcels, holding_labour>>

(* the button is pressed on the page the last run rendered *)
PermanentSave ==
    /\ app = "permanent"
    /\ "permanent_data" \in DOMAIN session_state
    /\ \E fault \in PermanentFaults :
          holding_labour_permanent_form(session_state.selected_holder, MaxRows, TRUE,
                                        session_state.permanent_data, fault)
    /\ UNCHANGED <<app, main_app_state, conns, users, holders, current_section, progress_columns, agricultural_machinery, land_use,
                   land_use_parcels, holding_labour>>

NextPermanent ==
    \/ PermanentOpen
    \/ PermanentRender
    \/ PermanentSave

SpecPermanent == InitPermanent /\ [][NextPermanent]_vars

(* The census pages of one enumerator session over one holder: the labour   *)
(* wizard, the permanent workers form and the survey page, on one database  *)
(* whose holder_survey_progress has section_id, section_no or both.         *)
SurveyHolder == 1

(* the sections opened on the survey page: one no module marks, and the two *)
(* the labour and the permanent workers module mark themselves             *)
SurveySections == {1, 2, 3}

CensusCounts == {<<1, 2>>}
CensusOptions == {"Yes"}
CensusWorkers == {[i \in 1..MaxRows |-> WorkerLabourer]}

InitCensus ==
    /\ app = "census"
    /\ progress_columns \in {{"section_id"}, {"section_no"}, {"section_id", "section_no"}}
    /\ EmptyStore

LabourRender ==
    /\ app = "census"
    /\ labour_form_page(SurveyHolder, FALSE, <<0, 0>>, "Not Applicable", "none")
    /\ UNCHANGED <<app, main_app_state, conns, users, holders, current_section, progress_columns, agricultural_machinery, land_use,
                   land_use_parcels, holding_labour_permanent>>

LabourInitFails ==
    /\ app = "census"
    /\ holding_labour = <<>>
    /\ labour_form_page(SurveyHolder, FALSE, <<0, 0>>, "Not Applicable", "init")
    /\ UNCHANGED <<app, main_app_state, conns, users, holders, current_section, progress_columns, agricultural_machinery, land_use,
                   land_use_parcels, holding_labour_permanent>>

(* "Save & Next" is pressed on the question the last run rendered *)
LabourSaveNext ==
    /\ app = "census"
    /\ SessionGet(session_state, "labour_holder_id", 0) = SurveyHolder
    /\ fetch_questions(holding_labour, SurveyHolder) # <<>>
    /\ \E counts \in CensusCounts, option \in CensusOptions,
          fault \in LabourFaults \ {"init"} :
          labour_form_page(SurveyHolder, TRUE, counts, option, fault)
    /\ UNCHANGED <<app, main_app_state, conns, users, holders, current_section, progress_columns, agricultural_machinery, land_use,
                   land_use_parcels, holding_labour_permanent>>

CensusPermanentRender ==
    /\ app = "census"
    /\ \E widgets \in CensusWorkers :
          holding_labour_permanent_form(SurveyHolder, MaxRows, FALSE, widgets, "none")
    /\ UNCHANGED <<app, main_app_state, conns, users, holders, current_section, progress_columns, agricultural_machinery, land_use,
                   land_use_parcels, holding_labour>>

CensusPermanentSave ==
    /\ app = "census"
    /\ "permanent_data" \in DOMAIN session_state
    /\ \E fault \in PermanentFaults :
          holding_labour_permanent_form(SurveyHolder, MaxRows, TRUE,
                                        session_state.permanent_data, fault)
    /\ UNCHANGED <<app, main_app_state, conns, users, holders, current_section, progress_columns, agricultural_machinery, land_use,
                   land_use_parcels, holding_labour>>

SurveyMark ==
    /\ app = "census"
    /\ \E section_no \in SurveySections, fault \in MarkFaults :
          run_main_survey(SurveyHolder, section_no, fault)
    /\ UNCHANGED <<app, main_app_state, conns, users, holders, current_section, progress_columns, agricultural_machinery, land_use,
                   land_use_parcels, holding_labour, holding_labour_permanent,
                   session_state>>

NextCensus ==
    \/ LabourRender
    \/ LabourInitFails
    \/ LabourSaveNext
    \/ CensusPermanentRender
    \/ CensusPermanentSave
    \/ SurveyMark

SpecCensus == InitCensus /\ [][NextCensus]_vars

(* The labour wizard and the survey page's "Mark Section n Complete"        *)
(* buttons, with an enumerator who keeps at the wizard: the page is         *)
(* rendered whenever it can be, st.experimental_rerun() renders it again    *)
(* after each save, and "Save & Next" is pressed again and again, so that a *)
(* press the database does not fail happens as long as one is possible.     *)
LabourSaveSucceeds ==
    /\ app = "census"
    /\ SessionGet(session_state, "labour_holder_id", 0) = SurveyHolder
    /\ fetch_questions(holding_labour, SurveyHolder) # <<>>
    /\ \E counts \in CensusCounts, option \in CensusOptions :
          labour_form_page(SurveyHolder, TRUE, counts, option, "none")
    /\ UNCHANGED <<app, main_app_state, conns, users, holders, current_section, progress_columns,
                   agricultural_machinery, land_use, land_use_parcels,
                   holding_labour_permanent>>

NextLabourWizard ==
    \/ LabourRender
    \/ LabourInitFails
    \/ LabourSaveNext
    \/ SurveyMark

SpecLabourWizard ==
    /\ InitCensus
    /\ [][NextLabourWizard]_vars
    /\ WF_vars(LabourRender)
    /\ WF_vars(LabourSaveSucceeds)

(* Two requests that save machinery rows of one holder at the same time.    *)
(* Each runs save_to_db on a connection of its own, and PostgreSQL runs the *)
(* statements at READ COMMITTED: a statement sees the rows committed when   *)
(* it starts and the rows its own transaction wrote, and a DELETE waits for *)
(* the transaction that holds the lock of a row it is to delete.  In this   *)
(* program agricultural_machinery holds the rows of every transaction in id *)
(* order; a connection names, by position, the rows it inserted or deleted  *)
(* and has not yet committed.                                                *)
Requests == {"A", "B"}

Other(p) == CHOOSE q \in Requests : q # p

(* the positions of S once the rows at the positions D are gone *)
Shift(S, D) == {i - Cardinality({d \in D : d < i}) : i \in S \ D}

(* the table without the rows at the positions D *)
RemoveAt(table, D) ==
    [k \in 1..(Len(table) - Cardinality(D \cap (1..Len(table)))) |->
        table[CHOOSE i \in (1..Len(table)) \ D :
                 Cardinality({j \in (1..i) \ D : TRUE}) = k]] \o <<>>

(* the rows a statement of request p sees *)
Visible(p) ==
    {i \in 1..Len(agricultural_machinery) :
        i \notin conns[Other(p)].inserted /\ i \notin conns[p].deleted}

HolderRows(p) ==
    {i \in Visible(p) : agricultural_machinery[i].holder_id = SurveyHolder}

(* conn = get_connection(); cur = conn.cursor() *)
Connection(machinery_data) ==
    [pc |-> "check", data |-> machinery_data, count |-> 0, targets |-> {},
     deleted |-> {}, inserted |-> {}]

(* the machinery forms that pass validation *)
RaceSubmissions ==
    {d \in {machinery_form(<<>>, SurveyHolder, e) : e \in MachineryEdits} :
        validate_machinery_data(d)}

InitRaceMachinery ==
    /\ app = "race_machinery"
    /\ progress_columns = {"section_id", "section_no"}
    /\ land_use = <<>>
    /\ land_use_parcels = <<>>
    /\ holding_labour = <<>>
    /\ holding_labour_permanent = <<>>
    /\ holder_survey_progress = EmptyBag
    /\ session_state = NoSession
    /\ users = <<>>
    /\ holders = <<>>
    /\ current_section = NullInt
    /\ last = NoOutcome
    /\ NoRegistrations
    /\ agricultural_machinery \in {<<>>} \cup RaceSubmissions
    /\ conns \in [Requests -> {Connection(d) : d \in RaceSubmissions}]

(* the SELECT COUNT of the holder's rows, check_query *)
RaceCheck(p) ==
    /\ app = "race_machinery"
    /\ conns[p].pc = "check"
    /\ conns' = [conns EXCEPT ![p].count = Cardinality(HolderRows(p)),
                              ![p].pc = IF Cardinality(HolderRows(p)) > 0
                                        THEN "delete" ELSE "insert"]
    /\ UNCHANGED <<app, main_app_state, users, holders, current_section, progress_columns, db, session_state, last>>

(* DELETE FROM agricultural_machinery WHERE holder_id = %s: the rows no     *)
(* other transaction has locked are deleted, the statement waits for the    *)
(* others                                                                    *)
RaceDelete(p) ==
    /\ app = "race_machinery"
    /\ conns[p].pc = "delete"
    /\ LET locked == HolderRows(p) \cap conns[Other(p)].deleted
       IN  conns' = [conns EXCEPT ![p].deleted = HolderRows(p) \ locked,
                                  ![p].targets = locked,
                                  ![p].pc = IF locked = {} THEN "insert" ELSE "delete_wait"]
    /\ UNCHANGED <<app, main_app_state, users, holders, current_section, progress_columns, db, session_state, last>>

(* the lock holder has ended: the rows it left are deleted *)
RaceDeleteResume(p) ==
    /\ app = "race_machinery"
    /\ conns[p].pc = "delete_wait"
    /\ conns[Other(p)].pc \in {"done", "failed"}
    /\ conns' = [conns EXCEPT ![p].deleted = conns[p].deleted \cup conns[p].targets,
                              ![p].targets = {},
                              ![p].pc = "insert"]
    /\ UNCHANGED <<app, main_app_state, users, holders, current_section, progress_columns, db, session_state, last>>

(* execute_values(cur, insert_query, values) *)
RaceInsert(p) ==
    /\ app = "race_machinery"
    /\ conns[p].pc = "insert"
    /\ agricultural_machinery' = InsertMachinery(agricultural_machinery, conns[p].data)
    /\ conns' = [conns EXCEPT ![p].inserted =
                                  (Len(agricultural_machinery) + 1)
                                     ..(Len(agricultural_machinery) + Len(conns[p].data)),
                              ![p].pc = "commit"]
    /\ UNCHANGED <<app, main_app_state, users, holders, current_section, progress_columns, land_use, land_use_parcels,
                   holding_labour, holding_labour_permanent, holder_survey_progress,
                   session_state, last>>

(* conn.commit(); return True *)
RaceCommit(p) ==
    /\ app = "race_machinery"
    /\ conns[p].pc = "commit"
    /\ agricultural_machinery' = RemoveAt(agricultural_machinery, conns[p].deleted)
    /\ conns' = [q \in Requests |->
                   IF q = p
                   THEN [conns[p] EXCEPT !.deleted = {}, !.inserted = {}, !.pc = "done"]
                   ELSE [conns[q] EXCEPT
                            !.targets = Shift(conns[q].targets, conns[p].deleted),
                            !.deleted = Shift(conns[q].deleted, conns[p].deleted),
                            !.inserted = Shift(conns[q].inserted, conns[p].deleted)]]
    /\ UNCHANGED <<app, main_app_state, users, holders, current_section, progress_columns, land_use, land_use_parcels,
                   holding_labour, holding_labour_permanent, holder_survey_progress,
                   session_state, last>>

(* a statement raises: conn.rollback(); return False *)
RaceRollback(p) ==
    /\ app = "race_machinery"
    /\ conns[p].pc \in {"check", "delete", "delete_wait", "insert", "commit"}
    /\ agricultural_machinery' = RemoveAt(agricultural_machinery, conns[p].inserted)
    /\ conns' = [q \in Requests |->
                   IF q = p
                   THEN [conns[p] EXCEPT !.deleted = {}, !.targets = {}, !.inserted = {},
                                         !.pc = "failed"]
                   ELSE [conns[q] EXCEPT
                            !.targets = Shift(conns[q].targets, conns[p].inserted),
                            !.deleted = Shift(conns[q].deleted, conns[p].inserted),
                            !.inserted = Shift(conns[q].inserted, conns[p].inserted)]]
    /\ UNCHANGED <<app, main_app_state, users, holders, current_section, progress_columns, land_use, land_use_parcels,
                   holding_labour, holding_labour_permanent, holder_survey_progress,
                   session_state, last>>

NextRaceMachinery ==
    \E p \in Requests :
       \/ RaceCheck(p)
       \/ RaceDelete(p)
       \/ RaceDeleteResume(p)
       \/ RaceInsert(p)
       \/ RaceCommit(p)
       \/ RaceRollback(p)

SpecRaceMachinery == InitRaceMachinery /\ [][NextRaceMachinery]_vars

(* Two requests that call the same mark_section_complete for one (holder,  *)
(* section) pair at the same time.  Each call is one `with engine.begin()`  *)
(* transaction of its own: its SELECT sees the committed rows, and what it  *)
(* writes is pending until the block ends and commits.                      *)
MarkCalls ==
    {[column |-> "section_no", section |-> s] : s \in SurveySections}
    \cup {[column |-> "section_id", section |-> 2], [column |-> "section_id", section |-> 3]}

InitRaceProgress ==
    /\ app = "race_progress"
    /\ progress_columns = {"section_id", "section_no"}
    /\ agricultural_machinery = <<>>
    /\ land_use = <<>>
    /\ land_use_parcels = <<>>
    /\ holding_labour = <<>>
    /\ holding_labour_permanent = <<>>
    /\ holder_survey_progress = EmptyBag
    /\ session_state = NoSession
    /\ users = <<>>
    /\ holders = <<>>
    /\ current_section = NullInt
    /\ last = NoOutcome
    /\ NoRegistrations
    /\ \E holder_id \in Holders, call \in MarkCalls :
          conns = [p \in Requests |->
                     [pc |-> "select", holder_id |-> holder_id, column |-> call.column,
                      section |-> call.section, exists |-> FALSE,
                      row |-> ProgressRow(holder_id, call.column, call.section)]]

(* exists = conn.execute(SELECT id FROM holder_survey_progress ...).fetchone() *)
ProgressSelect(p) ==
    /\ app = "race_progress"
    /\ conns[p].pc = "select"
    /\ LET c == conns[p]
           found == {r \in BagToSet(holder_survey_progress) :
                        r.holder_id = c.holder_id /\ r[c.column] = c.section}
       IN  conns' = [conns EXCEPT ![p].exists = (found # {}),
                                  ![p].row = IF found # {} THEN CHOOSE r \in found : TRUE
                                             ELSE c.row,
                                  ![p].pc = "write"]
    /\ UNCHANGED <<app, main_app_state, users, holders, current_section, progress_columns, db, session_state, last>>

(* the UPDATE or the INSERT, and the commit that ends the block; an UPDATE  *)
(* finds the row by its id, whatever another transaction set in it          *)
ProgressWrite(p) ==
    /\ app = "race_progress"
    /\ conns[p].pc = "write"
    /\ LET c == conns[p]
           stored == {r \in BagToSet(holder_survey_progress) :
                         [r EXCEPT !.completed = TRUE] = [c.row EXCEPT !.completed = TRUE]}
       IN  holder_survey_progress' =
              IF c.exists
              THEN IF stored # {}
                   THEN SetCompleted(holder_survey_progress, CHOOSE r \in stored : TRUE)
                   ELSE holder_survey_progress
              ELSE InsertProgress(holder_survey_progress, c.holder_id, c.column, c.section)
    /\ conns' = [conns EXCEPT ![p].pc = "done"]
    /\ UNCHANGED <<app, main_app_state, users, holders, current_section, progress_columns, agricultural_machinery, land_use,
                   land_use_parcels, holding_labour, holding_labour_permanent,
                   session_state, last>>

(* a statement raises: the block rolls back and the exception leaves the call *)
ProgressRaise(p) ==
    /\ app = "race_progress"
    /\ conns[p].pc \in {"select", "write"}
    /\ conns' = [conns EXCEPT ![p].pc = "failed"]
    /\ UNCHANGED <<app, main_app_state, users, holders, current_section, progress_columns, db, session_state, last>>

NextRaceProgress ==
    \E p \in Requests :
       \/ ProgressSelect(p)
       \/ ProgressWrite(p)
       \/ ProgressRaise(p)

SpecRaceProgress == InitRaceProgress /\ [][NextRaceProgress]_vars

(* holder_workflow.py: the page of a holder, one section at a time, with    *)
(* the "Back Section" and "Next Section" buttons below the section.  The    *)
(* page reads the holder from st.session_state.user_id.                      *)
SECTION_MAP ==
    <<"holder information", "household information", "holding labour",
      "holding permanent labour", "agricultural machinery">>

(* st.session_state.get("current_section", 1) *)
CurrentSection == IF current_section = NullInt THEN 1 ELSE current_section

BackEnabledAtOne(section) == section >= 1

(* if current_section > 1: the Back button is on the page *)
BackEnabled(section) == section > 1

(* if current_section < len(SECTION_MAP): the Next button is on the page *)
NextEnabled(section) == section < Len(SECTION_MAP)

(* the buttons a run of the page can find pressed *)
NavButtons(section) ==
    {"none"} \cup {b \in {"back"} : BackEnabled(section)}
             \cup {b \in {"next"} : NextEnabled(section)}

(* the navigation buttons; `+= 1` on a key that is not set raises *)
navigation_buttons(pressed) ==
    CASE pressed = "back" -> current_section' = current_section - 1
      [] pressed = "next" /\ current_section # NullInt ->
            current_section' = current_section + 1
      [] OTHER -> UNCHANGED current_section

(* One run of render_holder_section with a navigation button, or none,      *)
(* pressed: the section is rendered, then the navigation buttons; a section *)
(* that raises ends the run before the buttons.  Steps 3 and 5 call names   *)
(* the module does not import.                                               *)
render_holder_section(pressed, fault) ==
    \E holder_id \in {session_state.user_id} :
    CASE CurrentSection = 1 ->
            /\ labour_form_page(holder_id, FALSE, <<0, 0>>, "Not Applicable", fault)
            /\ IF last'.raised THEN UNCHANGED current_section
               ELSE navigation_buttons(pressed)
            /\ UNCHANGED agricultural_machinery
      [] CurrentSection = 2 ->
            /\ session_state' = IF "parcels_df" \in DOMAIN session_state THEN session_state
                                ELSE SessionSet(session_state, [parcels_df |-> parcels_df])
            /\ last' = Outcome("workflow", holder_id, <<>>, <<>>, FALSE, FALSE, FALSE)
            /\ navigation_buttons(pressed)
            /\ UNCHANGED <<agricultural_machinery, holding_labour, holder_survey_progress>>
      [] CurrentSection = 4 ->
            /\ agricultural_machinery_rendered(holder_id, fault = "none")
            /\ navigation_buttons(pressed)
            /\ UNCHANGED <<holding_labour, holder_survey_progress, session_state>>
      [] OTHER ->
            /\ last' = Outcome("workflow", holder_id, <<>>, <<>>, FALSE, FALSE, TRUE)
            /\ UNCHANGED <<agricultural_machinery, holding_labour, holder_survey_progress,
                           session_state, current_section>>

InitWorkflow ==
    /\ app = "workflow"
    /\ progress_columns \in {{"section_id"}, {"section_no"}, {"section_id", "section_no"}}
    /\ agricultural_machinery = <<>>
    /\ land_use = <<>>
    /\ land_use_parcels = <<>>
    /\ holding_labour = <<>>
    /\ holding_labour_permanent = <<>>
    /\ holder_survey_progress = EmptyBag
    /\ session_state = [user_id |-> SurveyHolder]
    /\ conns = NoConns
    /\ users = <<>>
    /\ holders = <<>>
    /\ current_section \in {NullInt} \cup (1..Len(SECTION_MAP))
    /\ last = NoOutcome
    /\ NoRegistrations

(* the page runs with "Back Section", "Next Section" or nothing pressed *)
WorkflowNavigate ==
    /\ app = "workflow"
    /\ \E pressed \in NavButtons(CurrentSection), fault \in {"none", "init"} :
          render_holder_section(pressed, fault)
    /\ UNCHANGED <<app, main_app_state, conns, users, holders, progress_columns, land_use,
                   land_use_parcels, holding_labour_permanent>>

(* the page runs with the button of the section's form pressed; the form    *)
(* reruns or returns before the navigation buttons                           *)
WorkflowSubmit ==
    /\ app = "workflow"
    /\ \/ /\ CurrentSection = 1
          /\ SessionGet(session_state, "labour_holder_id", 0) = session_state.user_id
          /\ fetch_questions(holding_labour, session_state.user_id) # <<>>
          /\ \E counts \in CensusCounts, option \in CensusOptions,
                fault \in LabourFaults \ {"init"} :
                labour_form_page(session_state.user_id, TRUE, counts, option, fault)
          /\ UNCHANGED agricultural_machinery
       \/ /\ CurrentSection = 4
          /\ \E edits \in MachineryEdits :
                agricultural_machinery_section(session_state.user_id, edits)
          /\ UNCHANGED <<holding_labour, holder_survey_progress, session_state>>
    /\ UNCHANGED <<app, main_app_state, conns, users, holders, current_section, progress_columns, land_use,
                   land_use_parcels, holding_labour_permanent>>

NextWorkflow ==
    \/ WorkflowNavigate
    \/ WorkflowSubmit

SpecWorkflow == InitWorkflow /\ [][NextWorkflow]_vars

(* backfill_holders.py: python -m census_app.backfill_holders.  users are   *)
(* rows [id, username, role], holders rows [name, location, owner_id,       *)
(* status] in id order; submitted_at, the time of the insert, is left out.  *)
MaxUsers == 3

Roles == {"Holder", "Agent"}

UserRow(id, role) == [id |-> id, username |-> IF role = "Holder" THEN "farmer" ELSE "agent",
                      role |-> role]

(* a holder registered before the backfill *)
RegisteredHolder(owner_id) ==
    [name |-> "Sunny Acres", location |-> "Andros", owner_id |-> owner_id,
     status |-> "pending"]

HolderExistsNever(table, uid) == FALSE

(* SELECT id FROM holders WHERE owner_id = :uid, fetchone() *)
HolderExists(table, uid) == \E i \in 1..Len(table) : table[i].owner_id = uid

(* INSERT INTO holders (name, location, owner_id, status, submitted_at) *)
CreatedHolder(user) ==
    [name |-> user.username, location |-> "", owner_id |-> user.id, status |-> "active"]

(* for user in users: the holders table after the rest of the loop *)
RECURSIVE BackfillLoop(_, _)
BackfillLoop(table, todo) ==
    IF todo = <<>> THEN table
    ELSE BackfillLoop(IF HolderExists(table, Head(todo).id) THEN table
                      ELSE table \o <<CreatedHolder(Head(todo))>>,
                      Tail(todo))

BackfillFaults == {"none", "select", "insert"}

(* One run of backfill_holders, one transaction; a statement that fails     *)
(* rolls the run's inserts back and the exception ends the script.          *)
backfill_holders(fault) ==
    \E holder_users \in {SelectSeq(users, LAMBDA u : u.role = "Holder")} :
    \E after \in {BackfillLoop(holders, holder_users)} :
        IF fault = "select" \/ (fault = "insert" /\ after # holders)
        THEN /\ holders' = rollback(holders, after)
             /\ last' = [Outcome("backfill", 0, <<>>, <<>>, FALSE, FALSE, TRUE)
                           EXCEPT !.fault = fault, !.prior = Len(holders)]
        ELSE /\ holders' = after
             /\ last' = [Outcome("backfill", 0, <<>>, <<>>, FALSE, FALSE, FALSE)
                           EXCEPT !.prior = Len(holders)]

(* the users registered so far, and the holders some of them own: one or    *)
(* two each                                                                   *)
InitBackfill ==
    /\ app = "backfill"
    /\ progress_columns = {"section_id", "section_no"}
    /\ agricultural_machinery = <<>>
    /\ land_use = <<>>
    /\ land_use_parcels = <<>>
    /\ holding_labour = <<>>
    /\ holding_labour_permanent = <<>>
    /\ holder_survey_progress = EmptyBag
    /\ session_state = NoSession
    /\ conns = NoConns
    /\ current_section = NullInt
    /\ last = NoOutcome
    /\ NoRegistrations
    /\ \E n \in 0..MaxUsers :
       \E roles \in [1..n -> Roles], owners \in SUBSET (1..n), each \in 1..2 :
          /\ users = [i \in 1..n |-> UserRow(i, roles[i])]
          /\ holders = SelectSeq([i \in 1..(each * n) |-> RegisteredHolder(((i - 1) % n) + 1)],
                                 LAMBDA h : h.owner_id \in owners)

Backfill ==
    /\ app = "backfill"
    /\ \E fault \in BackfillFaults : backfill_holders(fault)
    /\ UNCHANGED <<app, main_app_state, conns, users, current_section, progress_columns, db, session_state>>

SpecBackfill == InitBackfill /\ [][Backfill]_vars

----------------------------------------------------------------------------
(* main_app.py: the public registration site.  Each browser session has its *)
(* own st.session_state; the sessions share the table registration_form.    *)
(* A text the code matches against a pattern is a sequence of characters.   *)

(* the most registrations the sessions make in a run of the model *)
MaxRegistrations == 2

(* session defaults set at the top of every script run (setdefault); the    *)
(* address keys follow latitude and longitude and are not kept separately.  *)
(* inserted_id is not a key of st.session_state: it remembers the id of the *)
(* row the session's own "Save & Continue" inserted.                        *)
SessionDefaults ==
    [page |-> "landing", admin_logged_in |-> FALSE, latitude |-> NullInt,
     longitude |-> NullInt, consent_bool |-> FALSE]

ADMIN_USERS == [admin |-> "admin123"]

(* keys_to_reset of reset_session that a session can hold *)
keys_to_reset == {"latitude", "longitude", "consent_bool"}

(* st.session_state.pop(key, None) for every key, then the setdefault loop  *)
(* of the script run that st.rerun() starts                                 *)
PopKeys(session, keys) == [k \in DOMAIN session \ keys |-> session[k]]

SetDefaults(session) == session @@ SessionDefaults

(* a character class repeated min..max times; max = 0 stands for no limit *)
Item(set, min, max) == [set |-> set, min |-> min, max |-> max]

Digit == {"0", "1", "2", "3", "4", "5", "6", "7", "8", "9"}

(* the characters of \w that the sample texts use *)
Word == Digit \cup {"a", "b", "c", "o", "m", "_"}

(* r"^[\w\.-]+@[\w\.-]+\.\w{2,4}$" *)
EMAIL_RE ==
    <<Item(Word \cup {".", "-"}, 1, 0), Item({"@"}, 1, 1), Item(Word \cup {".", "-"}, 1, 0),
      Item({"."}, 1, 1), Item(Word, 2, 4)>>

(* r"^\(\d{3}\) \d{3}-\d{4}$" *)
PHONE_RE ==
    <<Item({"("}, 1, 1), Item(Digit, 3, 3), Item({")"}, 1, 1), Item({" "}, 1, 1),
      Item(Digit, 3, 3), Item({"-"}, 1, 1), Item(Digit, 4, 4)>>

(* re.match of an anchored pattern: some way of cutting the text into the   *)
(* repetitions of the items                                                 *)
RECURSIVE re_match(_, _)
re_match(pattern, s) ==
    IF pattern = <<>> THEN s = <<>>
    ELSE \E n \in Head(pattern).min..Len(s) :
            /\ Head(pattern).max = 0 \/ n <= Head(pattern).max
            /\ \A i \in 1..n : s[i] \in Head(pattern).set
            /\ re_match(Tail(pattern), SubSeq(s, n + 1, Len(s)))

(* "{" + ",".join(selected) + "}" *)
RECURSIVE Join(_)
Join(list) ==
    IF list = <<>> THEN <<>>
    ELSE IF Len(list) = 1 THEN list
    ELSE <<Head(list), ",">> \o Join(Tail(list))

ArrayLiteral(list) == <<"{">> \o Join(list) \o <<"}">>

(* the TEXT[] value PostgreSQL reads from the literal *)
ParseArray(literal) ==
    SelectSeq(SubSeq(literal, 2, Len(literal) - 1), LAMBDA t : t # ",")

EmailValidAlways(email) == TRUE

(* email_valid: False only for a non-empty text the pattern does not match *)
EmailValid(email) == email = <<>> \/ re_match(EMAIL_RE, email)

PhoneValid(telephone) == telephone = <<>> \/ re_match(PHONE_RE, telephone)

(* what the widgets of the registration page hold when a button is pressed *)
BaseForm ==
    [first_name |-> "Ann", last_name |-> "Rolle",
     email |-> <<"a", "@", "b", ".", "c", "o">>,
     telephone |-> <<"(", "2", "4", "2", ")", " ", "4", "5", "6", "-", "4", "5", "6", "7">>,
     cell |-> "", island_selected |-> "Abaco", settlement_selected |-> "Marsh Harbour",
     street_address |-> "Bay Street", selected_methods |-> <<"WhatsApp", "Phone Call">>,
     interview_selected |-> <<"Phone Interview">>]

RegistrationForms ==
    {BaseForm,
     [BaseForm EXCEPT !.first_name = ""], [BaseForm EXCEPT !.last_name = ""],
     [BaseForm EXCEPT !.email = <<>>], [BaseForm EXCEPT !.telephone = <<>>],
     [BaseForm EXCEPT !.settlement_selected = ""], [BaseForm EXCEPT !.street_address = ""],
     [BaseForm EXCEPT !.email = <<"a", "b", ".", "c", "o">>],
     [BaseForm EXCEPT !.email = <<"a", "@", "b", ".", "c">>],
     [BaseForm EXCEPT !.email = <<"a", " ", "@", "b", ".", "c", "o">>],
     [BaseForm EXCEPT !.email = <<"a", "@", "b", ".", "c", "o", "m", "m", "m">>],
     [BaseForm EXCEPT !.telephone = <<"2", "4", "2", "4", "5", "6", "4", "5", "6", "7">>],
     [BaseForm EXCEPT !.telephone = <<"(", "2", "4", "2", ")", "4", "5", "6", "-", "4", "5", "6", "7">>],
     [BaseForm EXCEPT !.selected_methods = <<>>],
     [BaseForm EXCEPT !.interview_selected = <<>>]}

(* the checks of "Save & Continue", in the order of the code: the message   *)
(* of the first one that fails, or <<>>                                      *)
registration_errors(f) ==
    IF \/ f.first_name = "" \/ f.last_name = "" \/ f.telephone = <<>> \/ f.email = <<>>
       \/ f.island_selected = "" \/ f.settlement_selected = "" \/ f.street_address = ""
    THEN <<Msg("error", "required", 0, "")>>
    ELSE IF ~EmailValid(f.email) \/ ~PhoneValid(f.telephone)
    THEN <<Msg("error", "validation", 0, "")>>
    ELSE IF f.selected_methods = <<>>
    THEN <<Msg("error", "communication", 0, "")>>
    ELSE IF f.interview_selected = <<>>
    THEN <<Msg("error", "interview", 0, "")>>
    ELSE <<>>

(* INSERT INTO registration_form (...) VALUES (...) *)
RegistrationRow(id, session, f) ==
    [id |-> id, consent |-> session.consent_bool, first_name |-> f.first_name,
     last_name |-> f.last_name, email |-> f.email, telephone |-> f.telephone,
     cell |-> f.cell, communication_methods |-> ParseArray(ArrayLiteral(f.selected_methods)),
     island |-> f.island_selected, settlement |-> f.settlement_selected,
     street_address |-> f.street_address,
     interview_methods |-> ParseArray(ArrayLiteral(f.interview_selected)),
     latitude |-> session.latitude, longitude |-> session.longitude,
     available_days |-> <<>>, available_times |-> <<>>]

(* SELECT max(id) FROM registration_form; NullInt for an empty table *)
MaxId(table) ==
    IF table = <<>> THEN NullInt
    ELSE CHOOSE m \in {table[i].id : i \in 1..Len(table)} :
            \A i \in 1..Len(table) : table[i].id <= m

(* UPDATE registration_form SET available_days, available_times             *)
(* WHERE id = (SELECT max(id) FROM registration_form)                       *)
UpdateAvailability(table, days, times) ==
    [i \in 1..Len(table) |->
        IF table[i].id = MaxId(table)
        THEN [table[i] EXCEPT !.available_days = days, !.available_times = times]
        ELSE table[i]] \o <<>>

(* SELECT * FROM registration_form ORDER BY id DESC LIMIT 1 *)
LatestRegistration(table) == SelectSeq(table, LAMBDA r : r.id = MaxId(table))

(* DELETE FROM registration_form WHERE id = :id, for every ticked row *)
DeleteRegistrations(table, ids) == SelectSeq(table, LAMBDA r : r.id \notin ids)

(* what a run of main_app.py leaves: the session, the table, the sequence  *)
(* and what the page showed                                                 *)
Run(p, session, table, seq, outcome) ==
    /\ sessions' = [sessions EXCEPT ![p] = session]
    /\ registration_form' = table
    /\ registration_form_id_seq' = seq
    /\ last' = outcome

Shown(op, p, button, input, msgs, save_called, save_ok) ==
    Outcome(op, p, [button |-> button, input |-> input], msgs, save_called, save_ok, FALSE)

(* the coordinates get_browser_location or get_enhanced_ip_location stores *)
Fix == [latitude |-> 25, longitude |-> -77]

(* reset_session(): the keys are popped and st.rerun() ends the run there;  *)
(* the run it starts sets the defaults again                                *)
reset_session(session) == SetDefaults(PopKeys(session, keys_to_reset))

LandingButtons == {"gps", "clear", "start", "admin", "reset"}

(* landing_page with one of its buttons pressed; located tells whether the *)
(* browser or the IP services gave a position                               *)
landing_page(p, button, located) ==
    LET s == sessions[p]
        after ==
            CASE button = "gps" ->
                    IF located THEN [s EXCEPT !.latitude = Fix.latitude,
                                              !.longitude = Fix.longitude]
                    ELSE s
              [] button = "clear" -> SetDefaults(PopKeys(s, {"latitude", "longitude"}))
              [] button = "start" -> [s EXCEPT !.page = "registration"]
              [] button = "admin" -> [s EXCEPT !.page = "admin_login"]
              [] OTHER -> reset_session(s)
    IN  Run(p, after, registration_form, registration_form_id_seq,
            Shown("landing", p, button, located, <<>>, FALSE, FALSE))

RegistrationFaults == {"none", "connect", "insert"}

(* registration_form: consent is the value of the radio, f what the widgets *)
(* hold, button the button pressed in this run ("none": only rendered)      *)
registration_form_page(p, consent, button, f, fault) ==
    LET s == [sessions[p] EXCEPT !.consent_bool = consent]
        unchanged(session, msgs, called) ==
            Run(p, session, registration_form, registration_form_id_seq,
                Shown("registration", p, button, IF button = "save" THEN f ELSE <<>>,
                      msgs, called, FALSE))
        errors == registration_errors(f)
    IN  IF button = "back" THEN unchanged([s EXCEPT !.page = "landing"], <<>>, FALSE)
        ELSE IF ~consent \/ button = "none"
        THEN unchanged(s, IF consent THEN <<>> ELSE <<Msg("warning", "consent", 0, "")>>, FALSE)
        ELSE IF errors # <<>> THEN unchanged(s, errors, FALSE)
        ELSE IF fault = "connect" THEN unchanged(s, <<Msg("error", "database", 0, "")>>, TRUE)
        ELSE IF fault = "insert"
        THEN Run(p, s, registration_form, registration_form_id_seq + 1,
                 Shown("registration", p, button, f, <<Msg("error", "database", 0, "")>>,
                       TRUE, FALSE))
        ELSE Run(p, [s EXCEPT !.page = "availability",
                              !.inserted_id = registration_form_id_seq + 1],
                 Append(registration_form,
                        RegistrationRow(registration_form_id_seq + 1, s, f)),
                 registration_form_id_seq + 1,
                 Shown("registration", p, button, f, <<>>, TRUE, TRUE))

AvailabilityConfirmsAnyway(p, button, selected_days, selected_times, fault) ==
    LET s == sessions[p]
        input == [selected_days |-> selected_days, selected_times |-> selected_times]
        unchanged(session, msgs, called) ==
            Run(p, session, registration_form, registration_form_id_seq,
                Shown("availability", p, button, input, msgs, called, FALSE))
    IN  IF button = "back" THEN unchanged([s EXCEPT !.page = "registration"], <<>>, FALSE)
        ELSE IF button = "none" THEN unchanged(s, <<>>, FALSE)
        ELSE IF selected_days = <<>> \/ selected_times = <<>>
        THEN unchanged(s, <<Msg("error", "availability", 0, "")>>, FALSE)
        ELSE IF fault # "none"
        THEN unchanged([s EXCEPT !.page = "confirmation"],
                       <<Msg("error", "database", 0, "")>>, TRUE)
        ELSE Run(p, [s EXCEPT !.page = "confirmation"],
                 UpdateAvailability(registration_form, selected_days, selected_times),
                 registration_form_id_seq,
                 Shown("availability", p, button, input, <<>>, TRUE, TRUE))

(* availability_form with the ticked days and time slots *)
availability_form(p, button, selected_days, selected_times, fault) ==
    LET s == sessions[p]
        input == [selected_days |-> selected_days, selected_times |-> selected_times]
        unchanged(session, msgs, called) ==
            Run(p, session, registration_form, registration_form_id_seq,
                Shown("availability", p, button, input, msgs, called, FALSE))
    IN  IF button = "back" THEN unchanged([s EXCEPT !.page = "registration"], <<>>, FALSE)
        ELSE IF button = "none" THEN unchanged(s, <<>>, FALSE)
        ELSE IF selected_days = <<>> \/ selected_times = <<>>
        THEN unchanged(s, <<Msg("error", "availability", 0, "")>>, FALSE)
        ELSE IF fault # "none"
        THEN unchanged(s, <<Msg("error", "database", 0, "")>>, TRUE)
        ELSE Run(p, [s EXCEPT !.page = "confirmation"],
                 UpdateAvailability(registration_form, selected_days, selected_times),
                 registration_form_id_seq,
                 Shown("availability", p, button, input, <<>>, TRUE, TRUE))

(* confirmation_page: the details of the newest row are shown; "Return to   *)
(* Home" calls reset_session(), whose st.rerun() ends the run before        *)
(* st.session_state.page = "landing" is reached                             *)
confirmation_page(p, button, readable) ==
    LET s == sessions[p]
        reg == IF readable THEN LatestRegistration(registration_form) ELSE <<>>
        msgs == IF ~readable THEN <<Msg("error", "retrieving", 0, "")>>
                ELSE IF reg = <<>> THEN <<Msg("warning", "none_found", 0, "")>>
                ELSE <<>>
    IN  Run(p, IF button = "home" THEN reset_session(s) ELSE s,
            registration_form, registration_form_id_seq,
            Shown("confirmation", p, button, reg, msgs, FALSE, FALSE))

Credentials == [username : {"admin", "root"}, password : {"admin123", "letmein"}]

LoginAlways(c) == TRUE

(* username in ADMIN_USERS and password == ADMIN_USERS[username] *)
LoginAccepted(c) ==
    c.username \in DOMAIN ADMIN_USERS /\ c.password = ADMIN_USERS[c.username]

admin_login(p, button, c) ==
    LET s == sessions[p]
        after == IF button = "back" THEN [s EXCEPT !.page = "landing"]
                 ELSE IF button = "login" /\ LoginAccepted(c)
                 THEN [s EXCEPT !.admin_logged_in = TRUE, !.page = "admin_dashboard"]
                 ELSE s
    IN  Run(p, after, registration_form, registration_form_id_seq,
            Shown("admin_login", p, button, c,
                  IF button = "login" /\ ~LoginAccepted(c)
                  THEN <<Msg("error", "invalid_login", 0, "")>> ELSE <<>>,
                  FALSE, FALSE))

DashboardFaults == {"none", "select", "delete"}

(* admin_dashboard: ticked are the ids whose Delete box is ticked; the rows *)
(* listed are `input` of what the run showed                                *)
admin_dashboard(p, button, ticked, fault) ==
    LET s == sessions[p]
        listed == IF fault = "select" THEN <<>> ELSE registration_form
        failed == <<Msg("error", "loading", 0, "")>>
    IN  IF ~s.admin_logged_in
        THEN Run(p, [s EXCEPT !.page = "admin_login"], registration_form,
                 registration_form_id_seq,
                 Shown("admin_dashboard", p, "none", <<>>,
                       <<Msg("warning", "login_first", 0, "")>>, FALSE, FALSE))
        ELSE IF button = "logout"
        THEN Run(p, [s EXCEPT !.admin_logged_in = FALSE, !.page = "landing"],
                 registration_form, registration_form_id_seq,
                 Shown("admin_dashboard", p, button, <<>>, <<>>, FALSE, FALSE))
        ELSE IF button = "delete" /\ ticked # {} /\ fault # "select"
        THEN IF fault = "delete"
             THEN Run(p, s, registration_form, registration_form_id_seq,
                      Shown("admin_dashboard", p, button, listed, failed, TRUE, FALSE))
             ELSE Run(p, s, DeleteRegistrations(registration_form, ticked),
                      registration_form_id_seq,
                      Shown("admin_dashboard", p, button, listed, <<>>, TRUE, TRUE))
        ELSE Run(p, s, registration_form, registration_form_id_seq,
                 Shown("admin_dashboard", p, "none", listed,
                       IF fault = "select" THEN failed ELSE <<>>, FALSE, FALSE))

NewSession == [inserted_id |-> NullInt] @@ SessionDefaults

(* streamlit run main_app.py with one browser session, which starts with    *)
(* the defaults                                                              *)
InitMainApp ==
    /\ app = "main_app"
    /\ progress_columns = {"section_id", "section_no"}
    /\ agricultural_machinery = <<>>
    /\ land_use = <<>>
    /\ land_use_parcels = <<>>
    /\ holding_labour = <<>>
    /\ holding_labour_permanent = <<>>
    /\ holder_survey_progress = EmptyBag
    /\ session_state = NoSession
    /\ conns = NoConns
    /\ users = <<>>
    /\ holders = <<>>
    /\ current_section = NullInt
    /\ last = NoOutcome
    /\ sessions = [p \in {"A"} |-> NewSession]
    /\ registration_form = <<>>
    /\ registration_form_id_seq = 0

MainAppRest ==
    UNCHANGED <<app, progress_columns, db, session_state, conns, users, holders,
                current_section>>

Landing(p) ==
    /\ app = "main_app"
    /\ sessions[p].page = "landing"
    /\ \E button \in LandingButtons, located \in BOOLEAN : landing_page(p, button, located)
    /\ MainAppRest

Registration(p) ==
    /\ app = "main_app"
    /\ sessions[p].page = "registration"
    /\ \/ \E consent \in BOOLEAN, button \in {"none", "back"} :
             registration_form_page(p, consent, button, BaseForm, "none")
       \/ /\ registration_form_id_seq < MaxRegistrations
          /\ \E f \in RegistrationForms, fault \in RegistrationFaults :
                registration_form_page(p, TRUE, "save", f, fault)
    /\ MainAppRest

AvailabilityChoices == {<<>>, <<"Monday", "Friday">>} \X {<<>>, <<"Morning (7-10am)">>}

Availability(p) ==
    /\ app = "main_app"
    /\ sessions[p].page = "availability"
    /\ \/ \E button \in {"none", "back"} : availability_form(p, button, <<>>, <<>>, "none")
       \/ \E c \in AvailabilityChoices, fault \in {"none", "update"} :
             availability_form(p, "save", c[1], c[2], fault)
    /\ MainAppRest

Confirmation(p) ==
    /\ app = "main_app"
    /\ sessions[p].page = "confirmation"
    /\ \E button \in {"none", "home"}, readable \in BOOLEAN :
          confirmation_page(p, button, readable)
    /\ MainAppRest

AdminLogin(p) ==
    /\ app = "main_app"
    /\ sessions[p].page = "admin_login"
    /\ \E button \in {"none", "login", "back"}, c \in Credentials : admin_login(p, button, c)
    /\ MainAppRest

AdminDashboard(p) ==
    /\ app = "main_app"
    /\ sessions[p].page = "admin_dashboard"
    /\ \E button \in {"none", "logout", "delete"}, fault \in DashboardFaults,
          ticked \in SUBSET {registration_form[i].id : i \in 1..Len(registration_form)} :
          admin_dashboard(p, button, ticked, fault)
    /\ MainAppRest

NextMainApp ==
    \/ \E p \in DOMAIN sessions : Landing(p)
    \/ \E p \in DOMAIN sessions : Registration(p)
    \/ \E p \in DOMAIN sessions : Availability(p)
    \/ \E p \in DOMAIN sessions : Confirmation(p)
    \/ \E p \in DOMAIN sessions : AdminLogin(p)
    \/ \E p \in DOMAIN sessions : AdminDashboard(p)

SpecMainApp == InitMainApp /\ [][NextMainApp]_vars

(* Two visitors register at the same time, each in a browser session of    *)
(* their own, with forms that pass the checks.                              *)
InitVisitors ==
    /\ app = "visitors"
    /\ progress_columns = {"section_id", "section_no"}
    /\ agricultural_machinery = <<>>
    /\ land_use = <<>>
    /\ land_use_parcels = <<>>
    /\ holding_labour = <<>>
    /\ holding_labour_permanent = <<>>
    /\ holder_survey_progress = EmptyBag
    /\ session_state = NoSession
    /\ conns = NoConns
    /\ users = <<>>
    /\ holders = <<>>
    /\ current_section = NullInt
    /\ last = NoOutcome
    /\ sessions = [p \in {"A", "B"} |-> NewSession]
    /\ registration_form = <<>>
    /\ registration_form_id_seq = 0

VisitorChoices == {<<"Monday", "Friday">>, <<"Sunday">>} \X {<<"Morning (7-10am)">>}

VisitorStart(p) ==
    /\ app = "visitors"
    /\ sessions[p].page = "landing"
    /\ \E located \in BOOLEAN : landing_page(p, IF located THEN "gps" ELSE "start", TRUE)
    /\ MainAppRest

VisitorRegister(p) ==
    /\ app = "visitors"
    /\ sessions[p].page = "registration"
    /\ registration_form_id_seq < MaxRegistrations
    /\ \E fault \in {"none", "connect"} : registration_form_page(p, TRUE, "save", BaseForm, fault)
    /\ MainAppRest

VisitorAvailability(p) ==
    /\ app = "visitors"
    /\ sessions[p].page = "availability"
    /\ \E c \in VisitorChoices, fault \in {"none", "update"} :
          availability_form(p, "save", c[1], c[2], fault)
    /\ MainAppRest

VisitorConfirmation(p) ==
    /\ app = "visitors"
    /\ sessions[p].page = "confirmation"
    /\ \E button \in {"none", "home"} : confirmation_page(p, button, TRUE)
    /\ MainAppRest

NextVisitors ==
    \/ \E p \in DOMAIN sessions : VisitorStart(p)
    \/ \E p \in DOMAIN sessions : VisitorRegister(p)
    \/ \E p \in DOMAIN sessions : VisitorAvailability(p)
    \/ \E p \in DOMAIN sessions : VisitorConfirmation(p)

SpecVisitors == InitVisitors /\ [][NextVisitors]_vars

Init ==
    \/ InitMachinery
    \/ InitLandUse
    \/ InitPermanent
    \/ InitCensus
    \/ InitRaceMachinery
    \/ InitRaceProgress
    \/ InitWorkflow
    \/ InitBackfill

Next ==
    \/ MachinerySubmit
    \/ MachineryRender
    \/ LandUseSubmit
    \/ LandUseRender
    \/ PermanentOpen
    \/ PermanentRender
    \/ PermanentSave
    \/ LabourRender
    \/ LabourInitFails
    \/ LabourSaveNext
    \/ CensusPermanentRender
    \/ CensusPermanentSave
    \/ SurveyMark
    \/ NextRaceMachinery
    \/ NextRaceProgress
    \/ WorkflowNavigate
    \/ WorkflowSubmit
    \/ Backfill

Spec == Init /\ [][Next]_vars

----------------------------------------------------------------------------
(* Properties *)

LabourOf(table, holder_id) == SelectSeq(table, LAMBDA r : r.holder_id = holder_id)

(* the three sections whose save deletes the holder's rows and inserts the *)
(* submitted ones                                                           *)
ReplacedBySave ==
    /\ (last.op = "machinery" /\ last.save_ok) =>
          MachineryOf(agricultural_machinery, last.holder_id) = last.submitted
    /\ (last.op = "land_use" /\ last.save_ok) =>
          LET rows == StoredParcels(land_use, land_use_parcels, last.holder_id)
          IN  [i \in 1..Len(rows) |-> LoadedParcel(rows[i])] = last.submitted.parcels
    /\ (last.op = "permanent" /\ last.save_ok) =>
          PermanentOf(holding_labour_permanent, last.holder_id)
             = [i \in 1..Len(last.submitted) |-> WorkerRow(last.holder_id, last.submitted[i])]

(* C1, as the code has it: right after a successful save of machinery, of   *)
(* land-use parcels or of permanent workers for holder h, the stored rows   *)
(* of that section for h are exactly the rows submitted, whatever the       *)
(* number of rows stored before; a successful labour "Save & Next" writes   *)
(* the submitted answer into the row of its question and keeps the          *)
(* holder's rows of the other questions, one row per question 2..7.         *)
C1_ReplaceOnSave ==
    /\ ReplacedBySave
    /\ (last.op = "labour" /\ last.save_ok) =>
          LET rows == LabourOf(holding_labour, last.holder_id)
          IN  /\ Len(rows) = Len(default_questions)
              /\ \A q \in Range(default_questions) :
                    \E i \in 1..Len(rows) :
                       /\ rows[i].question_no = q
                       /\ q = last.submitted.question_no => rows[i] = last.submitted

(* a land-use save that stored fewer parcels than the holder had before *)
C1_Witness ==
    /\ last.op = "land_use"
    /\ last.save_ok
    /\ last.prior > Len(last.submitted.parcels)
    /\ Len(last.submitted.parcels) > 0

(* C1 as stated: after a successful save of any of the four sections,      *)
(* labour questions included, the holder's stored rows of the section are  *)
(* exactly the rows submitted in that save.                                 *)
C1_AsStated ==
    /\ ReplacedBySave
    /\ (last.op = "labour" /\ last.save_ok) =>
          LabourOf(holding_labour, last.holder_id) = <<last.submitted>>

(* the progress rows that record section s for holder h, with their copies *)
ProgressRowsFor(h, s) ==
    {r \in BagToSet(holder_survey_progress) :
        r.holder_id = h /\ (r.section_id = s \/ r.section_no = s)}

(* C2: holder_survey_progress never holds more than one row for a (holder,  *)
(* section) pair, and after a call of mark_section_complete that the        *)
(* database did not fail it holds exactly one row for the pair of the call, *)
(* with completed = true.                                                    *)
C2_OneRowPerMarkedPair ==
    /\ \A h \in Holders, s \in 1..TOTAL_SURVEY_SECTIONS :
          SumOver(ProgressRowsFor(h, s), holder_survey_progress) <= 1
    /\ (last.mark.called /\ last.fault = "none") =>
          /\ SumOver(ProgressRowsFor(last.holder_id, last.mark.section),
                     holder_survey_progress) = 1
          /\ \A r \in ProgressRowsFor(last.holder_id, last.mark.section) : r.completed

(* C3: right after a successful save, load returns what was submitted:      *)
(* machinery rows field by field in the saved order, the land-use main      *)
(* record field by field and its parcels in parcel order.                    *)
C3_RoundTrip ==
    /\ (last.op = "machinery" /\ last.save_ok) =>
          load_existing_data(agricultural_machinery, last.holder_id, TRUE)
             = [i \in 1..Len(last.submitted) |-> LoadedMachineryRow(last.submitted[i])]
    /\ (last.op = "land_use" /\ last.save_ok) =>
          LET loaded == load_existing_land_use_data(land_use, land_use_parcels,
                                                    last.holder_id, TRUE)
          IN  /\ loaded.parcels_data = SortByParcelNo(last.submitted.parcels)
              /\ loaded.main_info.total_area = last.submitted.total_area
              /\ loaded.main_info.years_used = last.submitted.years_used
              /\ loaded.main_info.main_purpose = last.submitted.main_purpose
              /\ loaded.main_info.num_parcels = last.submitted.num_parcels
              /\ loaded.main_info.location = last.submitted.location
              /\ loaded.main_info.crop_methods = last.submitted.crop_methods

(* C4: a step in which a section save was invoked and failed leaves the     *)
(* stored rows of every section as they were before the step.               *)
C4_NoPartialSave ==
    [][(last'.save_called /\ ~last'.save_ok) =>
          UNCHANGED <<agricultural_machinery, land_use, land_use_parcels,
                      holding_labour, holding_labour_permanent>>]_vars

(* a machinery save over stored rows that failed at its INSERT, after its   *)
(* DELETE, with rows other than the stored ones                              *)
C4_Witness ==
    /\ last.op = "machinery"
    /\ last.save_called /\ ~last.save_ok
    /\ last.fault = "insert"
    /\ last.prior > 0
    /\ MachineryOf(agricultural_machinery, last.holder_id) # last.submitted

(* C5: a progress row with completed = true is still in the table, with     *)
(* completed = true, after every step.                                       *)
C5_ForwardOnly ==
    [][\A r \in BagToSet(holder_survey_progress) :
          r.completed => CopiesIn(r, holder_survey_progress')
                            >= CopiesIn(r, holder_survey_progress)]_vars

(* a repeated mark that took the UPDATE path on a completed row *)
C5_Witness ==
    /\ last.mark.called
    /\ last.mark.path = "update"
    /\ \E r \in ProgressRowsFor(last.holder_id, last.mark.section) : r.completed

(* the sections some progress row records as completed for holder h *)
MarkedSections(h) ==
    {s \in 1..TOTAL_SURVEY_SECTIONS : \E r \in ProgressRowsFor(h, s) : r.completed}

(* C6: once a section is marked for holder h, get_completed_sections(h)     *)
(* returns exactly the sections marked complete for h by any module, and    *)
(* the progress fraction is the number of those sections over 5.            *)
C6_CompletedIsMarked ==
    \A h \in Holders :
       LET completed_sections == get_completed_sections(holder_survey_progress,
                                                        progress_columns, h)
       IN  MarkedSections(h) # {} =>
              /\ ~completed_sections.raised
              /\ BagToSet(completed_sections.sections) = MarkedSections(h)
              /\ progress_fraction(completed_sections.sections)
                    = <<Cardinality(MarkedSections(h)), 5>>

(* a machinery row with a quantity below 0 or above 20 *)
QuantityOutside(row) ==
    \/ row.quantity_new < 0 \/ row.quantity_new > 20
    \/ row.quantity_used < 0 \/ row.quantity_used > 20
    \/ row.quantity_out_of_service < 0 \/ row.quantity_out_of_service > 20

(* C7: a machinery submission with a quantity outside [0, 20] gets a        *)
(* validation error for it and save_to_db is not invoked; no stored         *)
(* machinery row has a quantity outside [0, 20].                             *)
C7_QuantitiesInRange ==
    /\ (last.op = "machinery" /\ \E i \in 1..Len(last.submitted) :
                                    QuantityOutside(last.submitted[i])) =>
          /\ ~last.save_called
          /\ \E e \in Range(last.errors) : e.code = "quantity_out_of_range"
    /\ \A i \in 1..Len(agricultural_machinery) : ~QuantityOutside(agricultural_machinery[i])

(* a submission whose only faults are quantities above 20, made by a       *)
(* holder who has rows stored                                               *)
C7_Witness ==
    /\ last.op = "machinery"
    /\ \E i \in 1..Len(last.submitted) : last.submitted[i].quantity_new > 20
    /\ \A e \in Range(last.errors) : e.code = "quantity_out_of_range"
    /\ ~last.save_called
    /\ last.prior > 0

(* a machinery row marked "Y" with all three quantities 0 *)
HasItemWithoutQuantity(row) ==
    /\ row.has_item = "Y"
    /\ row.quantity_new = 0 /\ row.quantity_used = 0 /\ row.quantity_out_of_service = 0

(* C8: a machinery submission with a row marked "Y" whose quantities are    *)
(* all 0 gets a validation error for that row, save_to_db is not called     *)
(* and the step leaves agricultural_machinery as it was.                     *)
C8_HasItemNeedsQuantity ==
    [][(last'.op = "machinery" /\ \E i \in 1..Len(last'.submitted) :
                                     HasItemWithoutQuantity(last'.submitted[i])) =>
          /\ \E i \in 1..Len(last'.submitted), e \in Range(last'.errors) :
                /\ HasItemWithoutQuantity(last'.submitted[i])
                /\ e.code = "has_item_no_quantity" /\ e.row = i
          /\ ~last'.save_called
          /\ agricultural_machinery' = agricultural_machinery]_vars

(* such a submission by a first-time holder, with no other rule violated:   *)
(* load still returns empty                                                  *)
C8_Witness ==
    /\ last.op = "machinery"
    /\ \E i \in 1..Len(last.submitted) : HasItemWithoutQuantity(last.submitted[i])
    /\ \A i \in 1..Len(last.submitted) : ~QuantityOutside(last.submitted[i])
    /\ ~last.save_called
    /\ load_existing_data(agricultural_machinery, last.holder_id, TRUE) = <<>>

(* the rules of validate_main_land_use and validate_parcels a submission    *)
(* breaks, as <<row, rule>>; row 0 is the main record                        *)
LandUseViolations(d) ==
    {<<0, c>> : c \in {g \in {"total_area_not_positive"} : d.total_area <= 0}
                      \cup {g \in {"years_negative"} : d.years_used < 0}
                      \cup {g \in {"no_crop_method"} : Len(d.crop_methods) = 0}
                      \cup {g \in {"num_parcels_below_one"} : d.num_parcels < 1}
                      \cup {g \in {"location_empty"} : d.location \in {"", " "}}}
    \cup {<<i, "total_negative">> :
             i \in {j \in 1..Len(d.parcels) : d.parcels[j].total_acres < 0}}
    \cup {<<i, "developed_negative">> :
             i \in {j \in 1..Len(d.parcels) : d.parcels[j].developed_acres < 0}}
    \cup {<<i, "irrigated_negative">> :
             i \in {j \in 1..Len(d.parcels) : d.parcels[j].irrigated_area < 0}}
    \cup {<<i, "developed_exceeds_total">> :
             i \in {j \in 1..Len(d.parcels) :
                      d.parcels[j].developed_acres > d.parcels[j].total_acres}}

(* C9: a land-use submission with a parcel whose developed acres exceed its *)
(* total acres gets a validation error and the save is not invoked; one     *)
(* whose only irregularity is irrigated area above total acres gets a       *)
(* warning for each such parcel, no error, and the save is invoked.          *)
C9_DevelopedBlocksIrrigatedWarns ==
    last.op = "land_use" =>
       LET parcels == last.submitted.parcels
       IN  /\ (\E i \in 1..Len(parcels) : parcels[i].developed_acres > parcels[i].total_acres) =>
                 /\ \E e \in Range(last.errors) : e.code = "developed_exceeds_total"
                 /\ ~last.save_called
           /\ LandUseViolations(last.submitted) = {} =>
                 /\ \A i \in 1..Len(parcels) :
                       parcels[i].irrigated_area > parcels[i].total_acres =>
                          \E w \in Range(last.warnings) :
                             w.code = "irrigated_exceeds_total" /\ w.row = i
                 /\ \A e \in Range(last.errors) : e.code \in {"saving", "connect"}
                 /\ last.save_called

(* a saved submission with a parcel irrigated beyond its total acres *)
C9_Witness ==
    /\ last.op = "land_use"
    /\ \E i \in 1..Len(last.submitted.parcels) :
          last.submitted.parcels[i].irrigated_area > last.submitted.parcels[i].total_acres
    /\ last.warnings # <<>>
    /\ last.save_ok

(* the rules of validate_machinery_data a submission breaks, as            *)
(* <<row, rule, field>>                                                      *)
MachineryViolations(data) ==
    {<<i, "has_item_no_quantity", "has_item">> :
        i \in {j \in 1..Len(data) :
                 /\ data[j].has_item = "Y"
                 /\ data[j].quantity_new + data[j].quantity_used
                       + data[j].quantity_out_of_service = 0}}
    \cup {<<i, "quantity_out_of_range", "quantity_new">> :
             i \in {j \in 1..Len(data) : data[j].quantity_new < 0 \/ data[j].quantity_new > 20}}
    \cup {<<i, "quantity_out_of_range", "quantity_used">> :
             i \in {j \in 1..Len(data) : data[j].quantity_used < 0 \/ data[j].quantity_used > 20}}
    \cup {<<i, "quantity_out_of_range", "quantity_out_of_service">> :
             i \in {j \in 1..Len(data) : data[j].quantity_out_of_service < 0
                                         \/ data[j].quantity_out_of_service > 20}}

C11_FailuresCaught ==
    last.fault # "none" => (~last.raised /\ last.errors # <<>>)

(* a run that called the section's save with no rows to store *)
EmptySave(o) ==
    /\ o.save_called
    /\ \/ o.op = "machinery" /\ o.submitted = <<>>
       \/ o.op = "permanent" /\ o.submitted = <<>>
       \/ o.op = "land_use" /\ o.submitted.parcels = <<>>

(* C12: a section save called with an empty row list writes nothing, so the *)
(* store after the run is the store before it, and the run shows a warning  *)
(* and no error.                                                             *)
C12_EmptySaveIsNoOp ==
    [][EmptySave(last') => (db' = db /\ last'.warnings # <<>> /\ last'.errors = <<>>)]_vars

(* C13: once two concurrent machinery saves A and B of holder h have both   *)
(* committed, the rows stored for h are exactly the rows of A or exactly    *)
(* the rows of B, whatever the interleaving of their statements and whether *)
(* or not h had rows before.                                                 *)
C13_LastCommitWins ==
    (app = "race_machinery" /\ \A p \in Requests : conns[p].pc = "done") =>
        MachineryOf(agricultural_machinery, SurveyHolder)
            \in {conns[p].data : p \in Requests}

(* C14: when two concurrent calls of mark_section_complete for one (holder, *)
(* section) pair that had no progress row have both ended, the table holds  *)
(* exactly one row for the pair.                                             *)
C14_OneRowAfterRace ==
    (app = "race_progress" /\ \A p \in Requests : conns[p].pc = "done") =>
        SumOver(ProgressRowsFor(conns["A"].holder_id, conns["A"].section),
                holder_survey_progress) = 1

(* a run of the holder page that moved the section cursor *)
Moved == app = "workflow" /\ current_section' # current_section

ProgressWritten == holder_survey_progress' # holder_survey_progress

(* the run saved the last question of the labour wizard, or saved the       *)
(* permanent workers form: the section's form has nothing left to ask       *)
TerminalLogic(o) ==
    \/ /\ o.op = "labour"
       /\ o.save_ok
       /\ o.submitted.question_no = default_questions[Len(default_questions)]
    \/ o.op = "permanent" /\ o.save_ok

(* C16, as the code has it: a run that moves the section cursor leaves      *)
(* holder_survey_progress as it was, whichever section it reaches; the      *)
(* table is written only by a call of mark_section_complete, which a run    *)
(* makes when the labour wizard saved its last question, when the permanent *)
(* workers form was saved, or when "Mark Section n Complete" was pressed on *)
(* the survey page.                                                          *)
C16_NavigationMarksNothing ==
    [][/\ Moved => ~ProgressWritten
       /\ (ProgressWritten /\ app # "race_progress") =>
             /\ last'.mark.called
             /\ TerminalLogic(last') \/ last'.op = "survey"]_vars

(* "Next Section" pressed on the labour step after the wizard was completed *)
C16_Witness ==
    /\ app = "workflow"
    /\ current_section = 2
    /\ last.op = "labour"
    /\ ~last.save_called
    /\ holder_survey_progress # EmptyBag

(* C16 as stated: a run that moves the section cursor leaves the progress   *)
(* rows as they were, and a progress row is written only by a run in which  *)
(* the section's own form ran out of questions or fields.                    *)
C16_AsStated ==
    [][/\ Moved => ~ProgressWritten
       /\ (ProgressWritten /\ app # "race_progress") => TerminalLogic(last')]_vars

(* a run that rendered a section's form and found no save button pressed *)
Rendered(o) ==
    /\ ~o.save_called
    /\ o.op \in {"labour", "permanent", "machinery_render", "land_use_render", "workflow"}

(* the run inserted the six default questions of a holder who had none *)
QuestionsInitialized(o) ==
    /\ o.op = "labour"
    /\ LabourOf(holding_labour, o.holder_id) = <<>>
    /\ holding_labour' =
          holding_labour \o [i \in 1..6 |-> LabourRow(o.holder_id, i + 1, 0, 0, 0,
                                                      "Not Applicable")]
    /\ UNCHANGED <<agricultural_machinery, land_use, land_use_parcels,
                   holding_labour_permanent, holder_survey_progress>>

(* C17, as the code has it: a run that renders a section's form with no     *)
(* save button pressed leaves every table as it was, except that the labour *)
(* form, rendered for a holder who has no labour rows, inserts the holder's *)
(* six default question rows 2..7 with zero counts.                          *)
C17_RenderWritesNoAnswers ==
    [][Rendered(last') => (db' = db \/ QuestionsInitialized(last'))]_vars

(* the labour form rendered for the first time and left *)
C17_Witness ==
    /\ last.op = "labour"
    /\ ~last.save_called
    /\ ~last.raised
    /\ Len(LabourOf(holding_labour, last.holder_id)) = Len(default_questions)
    /\ "labour_complete" \in DOMAIN session_state
    /\ ~session_state.labour_complete
    /\ session_state.labour_current_form = 2

(* C17 as stated: a run that renders a section's form with no save button   *)
(* pressed writes nothing, so every table is after the run what it was      *)
(* before it.                                                                *)
C17_AsStated ==
    [][Rendered(last') => db' = db]_vars

(* the machinery form shows the default values on each of its lines *)
MachineryDefaultsShown(rows) ==
    /\ Len(rows) = Len(equipment_list)
    /\ \A i \in 1..Len(rows) :
          /\ rows[i].has_item = "N"
          /\ rows[i].quantity_new = 0
          /\ rows[i].quantity_used = 0
          /\ rows[i].quantity_out_of_service = 0
          /\ rows[i].source = "O"

(* the land-use form shows one parcel with zero acreages *)
LandUseDefaultsShown(form) ==
    /\ Len(form.parcels) = 1
    /\ form.parcels[1].total_acres = 0
    /\ form.parcels[1].developed_acres = 0
    /\ form.parcels[1].irrigated_area = 0

(* C18 for machinery: the form rendered for a holder with no machinery rows *)
(* has found nothing to load and shows has_item N, quantities 0 and source  *)
(* O on each of the 8 equipment lines.                                       *)
C18_MachineryDefaults ==
    (last.op = "machinery_render" /\ MachineryOf(agricultural_machinery, last.holder_id) = <<>>)
        => /\ load_existing_data(agricultural_machinery, last.holder_id, TRUE) = <<>>
           /\ MachineryDefaultsShown(last.submitted)

(* C18: the form rendered for a holder with no stored rows of the section   *)
(* has found nothing to load and shows the section's default values: the    *)
(* machinery form has_item N, quantities 0 and source O on each of the 8    *)
(* equipment lines, the land-use form one parcel with zero acreages.        *)
C18_DefaultsOnFirstRender ==
    /\ C18_MachineryDefaults
    /\ (last.op = "land_use_render" /\ LandUseOf(land_use, last.holder_id) = <<>>)
          => /\ load_existing_land_use_data(land_use, land_use_parcels, last.holder_id,
                                            TRUE).parcels_data = <<>>
             /\ LandUseDefaultsShown(last.submitted)

(* the holders of the table that user uid owns *)
OwnedBy(table, uid) == SelectSeq(table, LAMBDA h : h.owner_id = uid)

(* C19: a run of backfill_holders keeps every holder row there was, as it   *)
(* was; it creates one holder for a user of role Holder who owned none and  *)
(* none for any other user, so that a second run creates nothing; and after *)
(* a run that was not rolled back every user of role Holder owns a holder.  *)
C19_BackfillOnce ==
    [][app = "backfill" =>
          /\ Len(holders') >= Len(holders)
          /\ SubSeq(holders', 1, Len(holders)) = holders
          /\ \A i \in 1..Len(users) :
                Len(OwnedBy(holders', users[i].id)) - Len(OwnedBy(holders, users[i].id))
                   <= (IF users[i].role = "Holder" /\ OwnedBy(holders, users[i].id) = <<>>
                       THEN 1 ELSE 0)
          /\ ~last'.raised =>
                \A i \in 1..Len(users) :
                   users[i].role = "Holder" => OwnedBy(holders', users[i].id) # <<>>]_vars

(* a second run after one that created holders, which created none *)
C19_Witness ==
    /\ app = "backfill"
    /\ last.op = "backfill"
    /\ ~last.raised
    /\ last.prior = Len(holders)
    /\ \E i \in 1..Len(holders) : holders[i].status = "active"
    /\ \E i \in 1..Len(holders) : holders[i].status = "pending"

(* the wizard is at its first question with the six default questions stored *)
WizardStarted ==
    /\ "labour_current_form" \in DOMAIN session_state
    /\ session_state.labour_current_form = 2
    /\ \A q \in Range(default_questions) :
          HasQuestion(fetch_questions(holding_labour, SurveyHolder), q)

(* labour_complete is set and section 2 has a completed progress row *)
WizardCompleted ==
    /\ "labour_complete" \in DOMAIN session_state
    /\ session_state.labour_complete
    /\ \E r \in ProgressRowsFor(SurveyHolder, 2) : r.completed

(* a "Save & Next" that saved its answer moves the cursor to the next       *)
(* question when there is one                                                *)
CursorAdvances ==
    (last'.op = "labour" /\ last'.save_ok) =>
        /\ "labour_current_form" \in DOMAIN session_state
        /\ session_state'.labour_current_form =
              IF session_state.labour_current_form < 7
              THEN session_state.labour_current_form + 1
              ELSE session_state.labour_current_form

(* C20: the cursor of the labour wizard is always one of the questions 2..7; *)
(* a "Save & Next" that saved its answer advances it by exactly one while a  *)
(* next question exists; saving the last question marks section 2 complete;  *)
(* and from the first question with the six default questions stored,        *)
(* pressing "Save & Next" again and again leads to labour_complete and to a  *)
(* completed progress row of section 2.                                      *)
C20_WizardCompletes ==
    /\ []("labour_current_form" \in DOMAIN session_state
             => session_state.labour_current_form \in 2..7)
    /\ [][CursorAdvances]_vars
    /\ []((last.op = "labour" /\ last.save_ok /\ last.fault = "none"
             /\ last.submitted.question_no = 7) => WizardCompleted)
    /\ (WizardStarted ~> WizardCompleted)

(* on a table that has the section_id column the wizard does complete *)
WizardCompletesWithSectionId ==
    /\ []((last.op = "labour" /\ last.save_ok /\ last.fault = "none"
             /\ "section_id" \in progress_columns
             /\ last.submitted.question_no = 7) => WizardCompleted)
    /\ ((WizardStarted /\ "section_id" \in progress_columns) ~> WizardCompleted)

(* the rows a committed "Save Permanent Workers" of the last run stores *)
CommittedWorkers(o) == InsertPermanent(<<>>, o.holder_id, o.submitted)

PermanentSaved(o) == o.op = "permanent" /\ o.save_called

(* C21: a "Save Permanent Workers" whose delete+insert transaction fails    *)
(* does not call mark_section_complete and leaves the progress table and    *)
(* the workers table as they were; one whose transaction commits calls it;  *)
(* and whenever the save has set section 3 completed, the holder's stored   *)
(* permanent-worker rows are the rows of that committed save.               *)
C21_MarkAfterCommit ==
    /\ [][PermanentSaved(last') =>
            IF last'.save_ok
            THEN last'.mark.called /\ last'.mark.section = 3
            ELSE /\ ~last'.mark.called
                 /\ holder_survey_progress' = holder_survey_progress
                 /\ holding_labour_permanent' = holding_labour_permanent]_vars
    /\ []((PermanentSaved(last) /\ last.mark.called /\ ~last.mark.raised) =>
             /\ \E r \in ProgressRowsFor(last.holder_id, 3) : r.completed
             /\ PermanentOf(holding_labour_permanent, last.holder_id) = CommittedWorkers(last))

(* a save failed after an earlier one had committed and marked section 3 *)
C21_Witness ==
    /\ PermanentSaved(last)
    /\ ~last.save_ok
    /\ last.fault \in {"delete", "insert", "commit"}
    /\ PermanentOf(holding_labour_permanent, last.holder_id) # <<>>
    /\ \E r \in ProgressRowsFor(last.holder_id, 3) : r.completed

(* the worker lines of the submitted page that show something other than   *)
(* the first option of every list                                           *)
WorkersEntered(o) ==
    Cardinality({i \in 1..Len(o.submitted) : o.submitted[i] # FirstOptions})

(* C22: after a "Save Permanent Workers" that committed, for a holder who   *)
(* had no stored rows, the number of rows stored for the holder equals the  *)
(* number of worker lines in which something was entered: a line left as    *)
(* the empty slot shows it is skipped.                                      *)
C22_EmptySlotsSkipped ==
    (PermanentSaved(last) /\ last.save_ok /\ last.prior = 0) =>
        Len(PermanentOf(holding_labour_permanent, last.holder_id)) = WorkersEntered(last)

(* C23: holding_labour never holds two rows with the same holder_id and     *)
(* question_no, whatever renders of the labour page and "Save & Next"       *)
(* presses came before, one request at a time.                              *)
C23_OneRowPerQuestion ==
    \A i, j \in 1..Len(holding_labour) :
        (/\ holding_labour[i].holder_id = holding_labour[j].holder_id
         /\ holding_labour[i].question_no = holding_labour[j].question_no) => i = j

(* a "Save & Next" has written its answer into the row of question 2, and  *)
(* the page was rendered again afterwards with the rows already there       *)
C23_Witness ==
    /\ Len(holding_labour) = Len(default_questions)
    /\ \E i \in 1..Len(holding_labour) :
          holding_labour[i].question_no = 2 /\ holding_labour[i].total_count = 3
    /\ last.op = "labour"
    /\ ~last.save_called
    /\ session_state.labour_current_form = 3

(* the land_use_parcels rows that hang on the holder's land_use rows *)
ParcelsOfHolder(main_table, parcel_table, holder_id) ==
    SelectSeq(parcel_table,
              LAMBDA r : \E i \in 1..Len(main_table) :
                            main_table[i].holder_id = holder_id /\ main_table[i].id = r.land_use_id)

LandUseSaved(o) == o.op = "land_use" /\ o.save_called /\ o.save_ok

(* C24: there is never more than one land_use row for a holder, every       *)
(* land_use_parcels row references a land_use row that exists, and the      *)
(* parcels of a holder are the ones the holder's latest successful save     *)
(* wrote: a successful save leaves the holder with exactly the parcels it   *)
(* submitted and the other holders' parcels as they were, and every other   *)
(* step (a failed or refused save, a render) leaves all parcels as they     *)
(* were.                                                                    *)
C24_ParcelsOfLatestSave ==
    /\ [](\A h \in Holders : Len(LandUseOf(land_use, h)) <= 1)
    /\ [](\A i \in 1..Len(land_use_parcels) :
             \E k \in 1..Len(land_use) : land_use[k].id = land_use_parcels[i].land_use_id)
    /\ [][IF LandUseSaved(last')
          THEN /\ LandUseOf(land_use', last'.holder_id) # <<>>
               /\ ParcelsOfHolder(land_use', land_use_parcels', last'.holder_id)
                     = InsertParcels(<<>>, LandUseOf(land_use', last'.holder_id)[1].id,
                                     last'.submitted.parcels)
               /\ \A h \in Holders \ {last'.holder_id} :
                     ParcelsOfHolder(land_use', land_use_parcels', h)
                        = ParcelsOfHolder(land_use, land_use_parcels, h)
          ELSE land_use_parcels' = land_use_parcels /\ land_use' = land_use]_vars

(* both holders have stored parcels and the last save, with rows other than *)
(* the stored ones, failed after its DELETE                                  *)
C24_Witness ==
    /\ last.op = "land_use" /\ last.save_called /\ ~last.save_ok
    /\ last.fault \in {"insert_parcels", "commit"}
    /\ \A h \in Holders : ParcelsOfHolder(land_use, land_use_parcels, h) # <<>>
    /\ ParcelsOfHolder(land_use, land_use_parcels, last.holder_id)
          # InsertParcels(<<>>, LandUseOf(land_use, last.holder_id)[1].id, last.submitted.parcels)

(* the session whose run the last step was *)
RunOf(o, op) == o.op = op /\ o.holder_id \in DOMAIN sessions

(* C25: the admin dashboard lists or deletes rows only in a run of a        *)
(* session whose admin_logged_in is true; admin_logged_in becomes true only *)
(* in a run of the login page whose username/password pair is one of        *)
(* ADMIN_USERS; Logout sets it false and the page to landing; a run of the  *)
(* dashboard in a session that is not logged in sets the page to            *)
(* admin_login and neither lists nor deletes a row; and the page is never   *)
(* admin_dashboard in a session that is not logged in.                      *)
C25_AdminGate ==
    /\ [](\A p \in DOMAIN sessions :
             sessions[p].page = "admin_dashboard" => sessions[p].admin_logged_in)
    /\ [][(RunOf(last', "admin_dashboard")
             /\ (last'.submitted.input # <<>> \/ registration_form' # registration_form))
          => sessions[last'.holder_id].admin_logged_in]_vars
    /\ [][\A p \in DOMAIN sessions :
             (~sessions[p].admin_logged_in /\ sessions'[p].admin_logged_in) =>
                /\ RunOf(last', "admin_login") /\ last'.holder_id = p
                /\ last'.submitted.button = "login"
                /\ <<last'.submitted.input.username, last'.submitted.input.password>>
                      \in {<<u, ADMIN_USERS[u]>> : u \in DOMAIN ADMIN_USERS}]_vars
    /\ [][(RunOf(last', "admin_dashboard") /\ last'.submitted.button = "logout") =>
             /\ ~sessions'[last'.holder_id].admin_logged_in
             /\ sessions'[last'.holder_id].page = "landing"]_vars
    /\ [][(RunOf(last', "admin_dashboard") /\ ~sessions[last'.holder_id].admin_logged_in) =>
             /\ sessions'[last'.holder_id].page = "admin_login"
             /\ registration_form' = registration_form
             /\ last'.submitted.input = <<>>]_vars

(* a logged-in admin has deleted the only registration there was *)
C25_Witness ==
    /\ RunOf(last, "admin_dashboard")
    /\ last.submitted.button = "delete" /\ last.save_ok
    /\ last.submitted.input # <<>>
    /\ registration_form = <<>>
    /\ sessions[last.holder_id].admin_logged_in

(* the page of session p is `page` after the step and was not before it *)
PageBecomes(p, page) == sessions[p].page # page /\ sessions'[p].page = page

(* C26: in any session, page becomes "availability" only in a run of that   *)
(* session's registration page that inserted a registration_form row, and   *)
(* becomes "confirmation" only in a run of that session's availability page *)
(* whose UPDATE went through with at least one day and one time slot; a     *)
(* run whose checks, INSERT or UPDATE failed leaves the page as it was.     *)
C26_PageOrdering ==
    /\ [][\A p \in DOMAIN sessions : PageBecomes(p, "availability") =>
             /\ RunOf(last', "registration") /\ last'.holder_id = p
             /\ last'.save_called /\ last'.save_ok
             /\ Len(registration_form') = Len(registration_form) + 1
             /\ SubSeq(registration_form', 1, Len(registration_form)) = registration_form]_vars
    /\ [][\A p \in DOMAIN sessions : PageBecomes(p, "confirmation") =>
             /\ RunOf(last', "availability") /\ last'.holder_id = p
             /\ last'.save_called /\ last'.save_ok
             /\ last'.submitted.input.selected_days # <<>>
             /\ last'.submitted.input.selected_times # <<>>
             /\ registration_form'
                   = UpdateAvailability(registration_form, last'.submitted.input.selected_days,
                                        last'.submitted.input.selected_times)]_vars
    /\ [][((RunOf(last', "registration") \/ RunOf(last', "availability"))
             /\ last'.submitted.button = "save" /\ ~last'.save_ok) =>
             /\ sessions'[last'.holder_id].page = sessions[last'.holder_id].page
             /\ registration_form' = registration_form]_vars

(* a save of availability has just brought the visitor to the confirmation *)
(* page, the newest row holds the days, and an id of the sequence is not in *)
(* the table (an INSERT failed or the admin deleted a row)                  *)
C26_Witness ==
    /\ \E p \in DOMAIN sessions : sessions[p].page = "confirmation"
    /\ RunOf(last, "availability") /\ last.save_ok
    /\ registration_form # <<>>
    /\ registration_form[Len(registration_form)].available_days # <<>>
    /\ registration_form_id_seq > Len(registration_form)

(* the positions of character c in text s *)
Positions(s, c) == {i \in 1..Len(s) : s[i] = c}

(* one "@" with text before it, a dot later than the character after the   *)
(* "@", two to four word characters after the last dot, and nothing but     *)
(* word characters, dots and hyphens elsewhere                              *)
WellFormedEmail(s) ==
    /\ Cardinality(Positions(s, "@")) = 1
    /\ \A i \in 1..Len(s) : s[i] \in Word \cup {".", "-", "@"}
    /\ \E a \in Positions(s, "@"), d \in Positions(s, ".") :
          /\ a > 1 /\ d > a + 1
          /\ \A e \in Positions(s, ".") : e <= d
          /\ Len(s) - d \in 2..4
          /\ \A i \in (d + 1)..Len(s) : s[i] \in Word

(* (ddd) ddd-dddd *)
WellFormedTelephone(s) ==
    /\ Len(s) = 14
    /\ s[1] = "(" /\ s[5] = ")" /\ s[6] = " " /\ s[10] = "-"
    /\ \A i \in {2, 3, 4, 7, 8, 9, 11, 12, 13, 14} : s[i] \in Digit

(* what C27 asks of a stored row *)
CompleteRow(r) ==
    /\ r.consent = TRUE
    /\ r.first_name # "" /\ r.last_name # "" /\ r.email # <<>> /\ r.telephone # <<>>
    /\ r.island # "" /\ r.settlement # "" /\ r.street_address # ""
    /\ WellFormedEmail(r.email) /\ WellFormedTelephone(r.telephone)
    /\ r.communication_methods # <<>> /\ r.interview_methods # <<>>

(* C27: every registration_form row has consent = true, a non-empty first   *)
(* name, last name, email, telephone, island, settlement and street         *)
(* address, a well-formed email and telephone, and at least one             *)
(* communication method and one interview method; and a run of the          *)
(* registration page whose submission fails any of these inserts nothing.   *)
C27_OnlyCompleteRows ==
    /\ [](\A i \in 1..Len(registration_form) : CompleteRow(registration_form[i]))
    /\ [][(RunOf(last', "registration") /\ last'.submitted.button = "save"
             /\ ~CompleteRow(RegistrationRow(0, sessions'[last'.holder_id],
                                             last'.submitted.input)))
          => (registration_form' = registration_form /\ ~last'.save_called)]_vars

(* a complete row is stored, and the last submission, whose email has no    *)
(* "@", was refused                                                         *)
C27_Witness ==
    /\ registration_form # <<>>
    /\ RunOf(last, "registration") /\ last.submitted.button = "save"
    /\ last.submitted.input.email # <<>>
    /\ Positions(last.submitted.input.email, "@") = {}
    /\ ~last.save_called

(* the rows of the table with the given id *)
RowsWithId(table, id) == SelectSeq(table, LAMBDA r : r.id = id)

(* C28: a save of availability that went through writes the days and time  *)
(* slots to the row that the same session inserted (inserted_id is the id   *)
(* its last INSERT was given) and changes no other row, whatever the other  *)
(* session registered in between.                                           *)
C28_AvailabilityOnOwnRow ==
    [][(RunOf(last', "availability") /\ last'.save_ok) =>
          LET own == sessions[last'.holder_id].inserted_id
          IN  /\ \A i \in 1..Len(registration_form') :
                    registration_form'[i].id # own
                       => registration_form'[i] = registration_form[i]
              /\ \A i \in 1..Len(registration_form') :
                    registration_form'[i].id = own
                       => /\ registration_form'[i].available_days
                                = last'.submitted.input.selected_days
                          /\ registration_form'[i].available_times
                                = last'.submitted.input.selected_times]_vars

(* C29: a run of the confirmation page in which "Return to Home" is pressed *)
(* leaves the session without its registration and location keys (they     *)
(* hold their defaults in the run that follows) and with page = "landing".  *)
C29_ReturnToHome ==
    [][(RunOf(last', "confirmation") /\ last'.submitted.button = "home") =>
          /\ \A k \in keys_to_reset : sessions'[last'.holder_id][k] = SessionDefaults[k]
          /\ sessions'[last'.holder_id].page = "landing"]_vars

====
